---------------------------- MODULE Spec2Model ----------------------------
(***************************************************************************)
(* DocChunker: the hierarchy reconstruction of DocxParser / PdfParser      *)
(* (_reconstruct_hierarchy) followed by DocumentChunker.apply.             *)
(*                                                                         *)
(* A text is a record [id, tok]: id tells two strings apart, tok is the    *)
(* number of tokens count_tokens_in_text gives it.  The blank text has     *)
(* tok = 0.  A node is the element's dictionary plus 'children', the       *)
(* sequence of the children's node ids (1-based indices into nodes).       *)
(*                                                                         *)
(* The variables are the locals of the call that is running, and cfg, the  *)
(* fields of the DocumentChunker instance.                                 *)
(***************************************************************************)
EXTENDS Integers, Sequences, FiniteSets

VARIABLES
    flat_elements,   \* the elements _reconstruct_hierarchy has consumed
    nodes,           \* the node dictionaries created so far
    root_nodes,      \* ids of the root nodes
    parent_stack,    \* ids of the open ancestors, outer to inner
    pc,              \* "build" | "built" | "apply" | "done" | "error"
    cfg,             \* the DocumentChunker instance: chunk_size, num_overlapping_elements
    work,            \* call stack of _consolidate_recursive / the splitting loops
    chunks,          \* the chunks emitted so far by apply
    other            \* the locals of a second call on the same instances,
                     \* while that call is not the one running

vars == <<flat_elements, nodes, root_nodes, parent_stack, pc, cfg, work, chunks,
          other>>

---------------------------------------------------------------------------
(* Bounds of the model *)

MaxLen == 3            \* elements per document in Spec
MaxHeadingLevel == 2   \* heading levels 1..MaxHeadingLevel
MaxIndent == 1         \* list indent levels 0..MaxIndent
MaxItems == 4          \* elements per container in SplitSpec
MaxTok == 2            \* token count of one element in SplitSpec
MaxOverlap == 3        \* num_overlapping_elements 0..MaxOverlap in SplitSpec
MaxChunkSize == 5      \* chunk_size 1..MaxChunkSize in SplitSpec
SpecChunkSize == 3     \* chunk_size in Spec

---------------------------------------------------------------------------
(* Small helpers on sequences *)

Last(s) == s[Len(s)]
Front(s) == SubSeq(s, 1, Len(s) - 1)
Range(s) == {s[i] : i \in 1..Len(s)}

RECURSIVE SumSeq(_)
SumSeq(s) == IF s = <<>> THEN 0 ELSE s[1] + SumSeq(Tail(s))

RECURSIVE Flatten(_)
Flatten(ss) == IF ss = <<>> THEN <<>> ELSE ss[1] \o Flatten(Tail(ss))

---------------------------------------------------------------------------
(* Elements: the dictionaries the format specific parsers hand over *)

Text(id, tok) == [id |-> id, tok |-> tok]

Heading(level, text) == [type |-> "heading", level |-> level, content |-> text]
Paragraph(text) == [type |-> "paragraph", content |-> text]
ListItem(level, num_id, text) ==
    [type |-> "list_item", level |-> level, num_id |-> num_id, content |-> text]
Table(header, data_rows) ==
    [type |-> "table", header |-> header, data_rows |-> data_rows]
Unknown(text) == [type |-> "unknown", content |-> text]

\* node = {**element_data, 'children': []}
MakeNode(element_data) ==
    [f \in DOMAIN element_data \cup {"children"} |->
        IF f = "children" THEN <<>> ELSE element_data[f]]

---------------------------------------------------------------------------
(* _reconstruct_hierarchy, one loop iteration per element.  The builder    *)
(* state b is [nodes, root_nodes, parent_stack].                           *)

\* PopForHeading that leaves open lists on the stack
RECURSIVE PopForHeadingKeepsLists(_, _, _)
PopForHeadingKeepsLists(ns, stack, level) ==
    IF stack /= <<>> /\
       (ns[Last(stack)].type = "heading" /\ ns[Last(stack)].level >= level)
    THEN PopForHeadingKeepsLists(ns, Front(stack), level)
    ELSE stack

\* PopForHeading with > in place of >=: a heading of the same level stays open
RECURSIVE PopForHeadingStrict(_, _, _)
PopForHeadingStrict(ns, stack, level) ==
    IF stack /= <<>> /\
       ( (ns[Last(stack)].type = "heading" /\ ns[Last(stack)].level > level)
         \/ ns[Last(stack)].type \in {"list_container", "list_item"} )
    THEN PopForHeadingStrict(ns, Front(stack), level)
    ELSE stack

\* while parent_stack and (top is a heading of level >= the new one, or a list): pop
RECURSIVE PopForHeading(_, _, _)
PopForHeading(ns, stack, level) ==
    IF stack /= <<>> /\
       ( (ns[Last(stack)].type = "heading" /\ ns[Last(stack)].level >= level)
         \/ ns[Last(stack)].type \in {"list_container", "list_item"} )
    THEN PopForHeading(ns, Front(stack), level)
    ELSE stack

\* PopForListItem with the container's num_id left unchecked
RECURSIVE PopForListItemAnyList(_, _, _, _)
PopForListItemAnyList(ns, stack, li_level, li_num_id) ==
    IF stack = <<>> THEN stack
    ELSE LET p_on_stack == ns[Last(stack)] IN
         IF p_on_stack.type = "list_container"
         THEN IF p_on_stack.level <= li_level THEN stack
              ELSE PopForListItemAnyList(ns, Front(stack), li_level, li_num_id)
         ELSE IF p_on_stack.type = "list_item"
         THEN IF p_on_stack.num_id = li_num_id /\ li_level > p_on_stack.level
              THEN stack
              ELSE PopForListItemAnyList(ns, Front(stack), li_level, li_num_id)
         ELSE IF p_on_stack.type = "heading" THEN stack
         ELSE PopForListItemAnyList(ns, Front(stack), li_level, li_num_id)

\* PopForListItem in which a list item of the same level stays a valid
\* parent (>= in place of >)
RECURSIVE PopForListItemSameLevelNests(_, _, _, _)
PopForListItemSameLevelNests(ns, stack, li_level, li_num_id) ==
    IF stack = <<>> THEN stack
    ELSE LET p_on_stack == ns[Last(stack)] IN
         IF p_on_stack.type = "list_container"
         THEN IF p_on_stack.num_id = li_num_id
              THEN IF p_on_stack.level = li_level THEN stack
                   ELSE IF p_on_stack.level < li_level THEN stack
                   ELSE PopForListItemSameLevelNests(ns, Front(stack), li_level, li_num_id)
              ELSE PopForListItemSameLevelNests(ns, Front(stack), li_level, li_num_id)
         ELSE IF p_on_stack.type = "list_item"
         THEN IF p_on_stack.num_id = li_num_id /\ li_level >= p_on_stack.level
              THEN stack
              ELSE PopForListItemSameLevelNests(ns, Front(stack), li_level, li_num_id)
         ELSE IF p_on_stack.type = "heading" THEN stack
         ELSE PopForListItemSameLevelNests(ns, Front(stack), li_level, li_num_id)
\* PopForListItem in which a list item of the same num_id is a valid parent
\* whatever its level
RECURSIVE PopForListItemAnyLevel(_, _, _, _)
PopForListItemAnyLevel(ns, stack, li_level, li_num_id) ==
    IF stack = <<>> THEN stack
    ELSE LET p_on_stack == ns[Last(stack)] IN
         IF p_on_stack.type = "list_container"
         THEN IF p_on_stack.num_id = li_num_id
              THEN IF p_on_stack.level = li_level THEN stack
                   ELSE IF p_on_stack.level < li_level THEN stack
                   ELSE PopForListItemAnyLevel(ns, Front(stack), li_level, li_num_id)
              ELSE PopForListItemAnyLevel(ns, Front(stack), li_level, li_num_id)
         ELSE IF p_on_stack.type = "list_item"
         THEN IF p_on_stack.num_id = li_num_id
              THEN stack
              ELSE PopForListItemAnyLevel(ns, Front(stack), li_level, li_num_id)
         ELSE IF p_on_stack.type = "heading" THEN stack
         ELSE PopForListItemAnyLevel(ns, Front(stack), li_level, li_num_id)
\* the list item's while loop: stop at a container of the same num_id with
\* level <= li_level, at an item of the same num_id with level < li_level, or
\* at a heading; pop everything else
RECURSIVE PopForListItem(_, _, _, _)
PopForListItem(ns, stack, li_level, li_num_id) ==
    IF stack = <<>> THEN stack
    ELSE LET p_on_stack == ns[Last(stack)] IN
         IF p_on_stack.type = "list_container"
         THEN IF p_on_stack.num_id = li_num_id
              THEN IF p_on_stack.level = li_level THEN stack
                   ELSE IF p_on_stack.level < li_level THEN stack
                   ELSE PopForListItem(ns, Front(stack), li_level, li_num_id)
              ELSE PopForListItem(ns, Front(stack), li_level, li_num_id)
         ELSE IF p_on_stack.type = "list_item"
         THEN IF p_on_stack.num_id = li_num_id /\ li_level > p_on_stack.level
              THEN stack
              ELSE PopForListItem(ns, Front(stack), li_level, li_num_id)
         ELSE IF p_on_stack.type = "heading" THEN stack
         ELSE PopForListItem(ns, Front(stack), li_level, li_num_id)

\* while parent_stack and top is a list_item or list_container: pop
RECURSIVE PopForBlock(_, _)
PopForBlock(ns, stack) ==
    IF stack /= <<>> /\ ns[Last(stack)].type \in {"list_item", "list_container"}
    THEN PopForBlock(ns, Front(stack))
    ELSE stack

\* Attach that puts the node in front of its siblings
AttachInFront(ns, roots, stack, id) ==
    IF stack = <<>>
    THEN [nodes |-> ns, root_nodes |-> <<id>> \o roots]
    ELSE [nodes |-> [ns EXCEPT ![Last(stack)].children = <<id>> \o @],
          root_nodes |-> roots]

\* Attach that hands the node to the outermost open ancestor
AttachToOutermost(ns, roots, stack, id) ==
    IF stack = <<>>
    THEN [nodes |-> ns, root_nodes |-> Append(roots, id)]
    ELSE [nodes |-> [ns EXCEPT ![stack[1]].children = Append(@, id)],
          root_nodes |-> roots]

\* if not parent_stack: root_nodes.append(n) else: parent_stack[-1]['children'].append(n)
\* for the node whose id is `id`, already stored in ns
Attach(ns, roots, stack, id) ==
    IF stack = <<>>
    THEN [nodes |-> ns, root_nodes |-> Append(roots, id)]
    ELSE [nodes |-> [ns EXCEPT ![Last(stack)].children = Append(@, id)],
          root_nodes |-> roots]

HeadingStep(b, element_data) ==
    LET id == Len(b.nodes) + 1
        ns == Append(b.nodes, MakeNode(element_data))
        stack == PopForHeading(ns, b.parent_stack, element_data.level)
        a == Attach(ns, b.root_nodes, stack, id)
    IN [nodes |-> a.nodes, root_nodes |-> a.root_nodes,
        parent_stack |-> Append(stack, id)]

\* Case 1: the resolved top is the list_container of the same num_id and level
IsMatchingContainer(ns, stack, li_level, li_num_id) ==
    /\ stack /= <<>>
    /\ ns[Last(stack)].type = "list_container"
    /\ ns[Last(stack)].num_id = li_num_id
    /\ ns[Last(stack)].level = li_level

ListItemStep(b, element_data) ==
    LET li_level == element_data.level
        li_num_id == element_data.num_id
        id == Len(b.nodes) + 1
        ns == Append(b.nodes, MakeNode(element_data))
        stack == PopForListItem(ns, b.parent_stack, li_level, li_num_id)
    IN IF IsMatchingContainer(ns, stack, li_level, li_num_id)
       THEN [nodes |-> [ns EXCEPT ![Last(stack)].children = Append(@, id)],
             root_nodes |-> b.root_nodes,
             parent_stack |-> Append(stack, id)]
       ELSE LET cid == id + 1
                list_container_node ==
                    [type |-> "list_container", level |-> li_level,
                     num_id |-> li_num_id, children |-> <<id>>]
                a == Attach(Append(ns, list_container_node), b.root_nodes, stack, cid)
            IN [nodes |-> a.nodes, root_nodes |-> a.root_nodes,
                parent_stack |-> stack \o <<cid, id>>]

\* BlockStep that pushes the paragraph or table on the stack, as a heading is
BlockStepPushes(b, element_data) ==
    LET id == Len(b.nodes) + 1
        ns == Append(b.nodes, MakeNode(element_data))
        stack == PopForBlock(ns, b.parent_stack)
        a == Attach(ns, b.root_nodes, stack, id)
    IN [nodes |-> a.nodes, root_nodes |-> a.root_nodes,
        parent_stack |-> Append(stack, id)]
BlockStep(b, element_data) ==
    LET id == Len(b.nodes) + 1
        ns == Append(b.nodes, MakeNode(element_data))
        stack == PopForBlock(ns, b.parent_stack)
        a == Attach(ns, b.root_nodes, stack, id)
    IN [nodes |-> a.nodes, root_nodes |-> a.root_nodes, parent_stack |-> stack]

\* ReconstructStep whose last branch takes every remaining type: an element
\* of an unrecognized type is attached like a paragraph
ReconstructStepKeepsUnknown(b, element_data) ==
    IF element_data.type = "heading" THEN HeadingStep(b, element_data)
    ELSE IF element_data.type = "list_item" THEN ListItemStep(b, element_data)
    ELSE BlockStep(b, element_data)

\* one iteration of `for element_data in flat_elements`; an element of any
\* other type matches no branch and changes nothing
ReconstructStep(b, element_data) ==
    IF element_data.type = "heading" THEN HeadingStep(b, element_data)
    ELSE IF element_data.type = "list_item" THEN ListItemStep(b, element_data)
    ELSE IF element_data.type \in {"paragraph", "table"} THEN BlockStep(b, element_data)
    ELSE b

EmptyBuilder == [nodes |-> <<>>, root_nodes |-> <<>>, parent_stack |-> <<>>]

RECURSIVE reconstruct_hierarchy(_)
reconstruct_hierarchy(elements) ==
    IF elements = <<>> THEN EmptyBuilder
    ELSE ReconstructStep(reconstruct_hierarchy(Front(elements)), Last(elements))

---------------------------------------------------------------------------
(* Strings.  A string is the sequence of its lines; the empty string is    *)
(* <<>>.  A line keeps what it was made of, so that a chunk's text can be  *)
(* traced back to the elements it came from.                               *)

BlankText == Text(0, 0)

\* text.strip() is empty
IsBlank(text) == text.tok = 0

\* dict.get(key, default)
Get(d, key, default) == IF key \in DOMAIN d THEN d[key] ELSE default

DigitStr == <<"1", "2", "3", "4", "5", "6", "7", "8", "9">>

\* tokens of "\n" and of the "---" rule line
NlTokens == 1
RuleTokens == 1

\* tokens of one line: those of the texts on it
LineTokens(line) ==
    IF line.kind = "row"
    THEN SumSeq([i \in 1..Len(line.cells) |->
                    line.cells[i].cell.tok + line.cells[i].header.tok])
    ELSE IF line.kind = "table_header"
    THEN SumSeq([i \in 1..Len(line.cells) |-> line.cells[i].tok])
    ELSE IF line.kind = "rule" THEN RuleTokens
    ELSE line.text.tok

\* count_tokens_in_text: additive over the lines and the newlines joining them
count_tokens_in_text(lines) ==
    IF lines = <<>> THEN 0
    ELSE SumSeq([i \in 1..Len(lines) |-> LineTokens(lines[i])])
         + NlTokens * (Len(lines) - 1)

TextLine(indent, marker, text) ==
    [kind |-> "text", indent |-> indent, marker |-> marker, text |-> text]

\* "- " for an unknown num_id or an even level, else "{level + 1}. "
ListMarker(node) ==
    LET marker_level == Get(node, "level", 0) IN
    IF Get(node, "num_id", -1) = -1 \/ marker_level % 2 = 0
    THEN "- "
    ELSE DigitStr[marker_level + 1] \o ". "

\* the node's own part in _stringify_node_content; an empty part is filtered out
OwnPart(node, indent_level) ==
    LET node_type == Get(node, "type", "unknown")
        content == Get(node, "content", BlankText)
    IN IF node_type = "paragraph"
       THEN IF indent_level = 0 /\ IsBlank(content) THEN <<>>
            ELSE <<TextLine(indent_level, "", content)>>
       ELSE IF node_type = "list_item"
       THEN <<TextLine(indent_level, ListMarker(node), content)>>
       ELSE IF node_type = "table"
       THEN <<TextLine(indent_level, "Table:", BlankText),
              TextLine(indent_level, "", content)>>
       ELSE IF node_type = "heading"
       THEN <<TextLine(indent_level, "H" \o DigitStr[Get(node, "level", 0)] \o ": ",
                       content)>>
       ELSE <<>>

RECURSIVE stringify_node_content(_, _, _)
RECURSIVE StringifyChildren(_, _, _, _)

\* _stringify_node_content(node, indent_level), node given by its id in ns
stringify_node_content(ns, id, indent_level) ==
    LET node == ns[id]
        node_type == Get(node, "type", "unknown")
        child_indent_level ==
            IF node_type \in {"list_item", "list_container"}
            THEN indent_level + 1 ELSE indent_level
    IN OwnPart(node, indent_level)
       \o StringifyChildren(ns, Get(node, "children", <<>>), child_indent_level, 1)

StringifyChildren(ns, children, indent_level, k) ==
    IF k > Len(children) THEN <<>>
    ELSE stringify_node_content(ns, children[k], indent_level)
         \o StringifyChildren(ns, children, indent_level, k + 1)

\* "\n".join(parts)
JoinLines(parts) == Flatten(parts)

\* [f"H{i+1}: {h}" for i, h in enumerate(headings) if h.strip()]
RECURSIVE FormattedHeadings(_, _)
FormattedHeadings(headings, i) ==
    IF i > Len(headings) THEN <<>>
    ELSE (IF IsBlank(headings[i]) THEN <<>>
          ELSE <<[kind |-> "heading", level |-> i, text |-> headings[i]]>>)
         \o FormattedHeadings(headings, i + 1)

\* _create_chunk_text: the heading prefix, closed by "\n---\n", then the
\* content.  The prefix ends with a newline, so that with an empty content
\* the text ends with an empty line.
create_chunk_text(headings, content_text) ==
    LET formatted_headings == FormattedHeadings(headings, 1)
        heading_prefix ==
            IF formatted_headings /= <<>>
            THEN formatted_headings \o <<[kind |-> "rule"]>>
            ELSE <<>>
    IN IF heading_prefix /= <<>> /\ content_text = <<>>
       THEN heading_prefix \o <<TextLine(0, "", BlankText)>>
       ELSE heading_prefix \o content_text

\* _format_table_row: "header: cell | ..." when the header fits the row, else
\* the cells alone
format_table_row(header, row_data) ==
    IF header = <<>> \/ Len(header) /= Len(row_data)
    THEN <<[kind |-> "row",
            cells |-> [i \in 1..Len(row_data) |->
                          [header |-> BlankText, cell |-> row_data[i]]]]>>
    ELSE <<[kind |-> "row",
            cells |-> [i \in 1..Len(row_data) |->
                          [header |-> header[i], cell |-> row_data[i]]]]>>

\* a table cell that is not a str (an int, None, ...)
NonString(id) == [id |-> id, tok |-> 1, type |-> "int"]

IsString(cell) == "type" \notin DOMAIN cell

\* _format_table_row raises ValueError: only the fallback " | ".join(row_data)
\* fails on a cell that is not a str, the f-string of the other branch
\* formats any value
format_table_row_raises(header, row_data) ==
    /\ header = <<>> \/ Len(header) /= Len(row_data)
    /\ \E i \in 1..Len(row_data) : ~IsString(row_data[i])

---------------------------------------------------------------------------
(* DocumentChunker *)

\* __init__
DocumentChunker(chunk_size, num_overlapping_elements) ==
    [chunk_size |-> chunk_size,
     num_overlapping_elements |-> num_overlapping_elements]

DocumentId == "doc"
SourceFormat == "docx"

Chunk(text, metadata) == [text |-> text, metadata |-> metadata]

Min(a, b) == IF a < b THEN a ELSE b

\* ChunksSoFar that counts the chunks of every node_type
ChunksSoFarAnyType(cs, node_type) == Len(cs)

\* len([c for c in chunks if c.metadata.get("node_type") == node_type])
ChunksSoFar(cs, node_type) ==
    Cardinality({i \in 1..Len(cs) : Get(cs[i].metadata, "node_type", "") = node_type})

\* is_first_list_chunk / is_first_table_chunk
IsFirstChunk(cs, node_type) == ChunksSoFar(cs, node_type) = 0

\* FlushChunk with overlap_elements not capped by the batch length
FlushChunkNoMin(cs, c, node_type, current_headings, parts, batch) ==
    LET final_chunk_text == create_chunk_text(current_headings, JoinLines(parts))
        is_first == IsFirstChunk(cs, node_type)
    IN Chunk(final_chunk_text,
             [document_id |-> DocumentId, source_type |-> SourceFormat,
              node_type |-> node_type, headings |-> current_headings,
              num_tokens |-> count_tokens_in_text(final_chunk_text),
              has_overlap |-> (~is_first /\ c.num_overlapping_elements > 0),
              overlap_elements |->
                  IF is_first THEN 0 ELSE c.num_overlapping_elements])

\* the chunk a flush appends, for a list container or a table
FlushChunk(cs, c, node_type, current_headings, parts, batch) ==
    LET final_chunk_text == create_chunk_text(current_headings, JoinLines(parts))
        is_first == IsFirstChunk(cs, node_type)
    IN Chunk(final_chunk_text,
             [document_id |-> DocumentId, source_type |-> SourceFormat,
              node_type |-> node_type, headings |-> current_headings,
              num_tokens |-> count_tokens_in_text(final_chunk_text),
              has_overlap |-> (~is_first /\ c.num_overlapping_elements > 0),
              overlap_elements |->
                  IF is_first THEN 0
                  ELSE Min(c.num_overlapping_elements, Len(batch))])

\* OverlapOf that never seeds anything
OverlapOfNone(c, batch) == <<>>

\* OverlapOf that seeds the whole batch when it is shorter than the overlap
OverlapOfClamped(c, batch) ==
    IF c.num_overlapping_elements > 0
    THEN SubSeq(batch, Len(batch) - Min(c.num_overlapping_elements, Len(batch)) + 1,
                Len(batch))
    ELSE <<>>

\* OverlapOf that seeds the last element of the batch with every overlap,
\* zero included
OverlapOfLastAlways(c, batch) == SubSeq(batch, Len(batch), Len(batch))

\* batch[-num_overlapping_elements:] when the batch holds that many, else []
OverlapOf(c, batch) ==
    IF c.num_overlapping_elements > 0 /\ Len(batch) >= c.num_overlapping_elements
    THEN SubSeq(batch, Len(batch) - c.num_overlapping_elements + 1, Len(batch))
    ELSE <<>>

\* MustFlush with the heading prefix's tokens left out of the sum
MustFlushNoHeadings(c, f, element_tokens) ==
    /\ f.batch /= <<>>
    /\ f.current_content_tokens + element_tokens + NlTokens > c.chunk_size

\* MustFlush without the test that the batch is not empty
MustFlushEvenIfEmpty(c, f, element_tokens) ==
    f.headings_tokens + f.current_content_tokens + element_tokens + NlTokens
        > c.chunk_size

\* MustFlush with the newline's tokens left out of the sum
MustFlushNoNewline(c, f, element_tokens) ==
    /\ f.batch /= <<>>
    /\ f.headings_tokens + f.current_content_tokens + element_tokens > c.chunk_size
\* MustFlush that lets one token more than chunk_size pass
MustFlushOneOver(c, f, element_tokens) ==
    /\ f.batch /= <<>>
    /\ f.headings_tokens + f.current_content_tokens + element_tokens + NlTokens
           > c.chunk_size + 1

\* the flush test of both loops
MustFlush(c, f, element_tokens) ==
    /\ f.batch /= <<>>
    /\ f.headings_tokens + f.current_content_tokens + element_tokens + NlTokens
           > c.chunk_size

\* LoopStep that skips an element whose own tokens exceed chunk_size
LoopStepDropOversized(c, cs, f, node_type, element, text_of) ==
    LET element_text == text_of[element]
        element_tokens == count_tokens_in_text(element_text)
        flush == MustFlush(c, f, element_tokens)
        overlap == OverlapOf(c, f.batch)
        overlap_parts == [k \in 1..Len(overlap) |-> text_of[overlap[k]]]
        seeded ==
            IF flush
            THEN [f EXCEPT !.batch = overlap, !.parts = overlap_parts,
                           !.current_content_tokens =
                               count_tokens_in_text(JoinLines(overlap_parts))]
            ELSE f
        parts2 == Append(seeded.parts, element_text)
    IN IF element_tokens > c.chunk_size
       THEN [chunks |-> cs, frame |-> [f EXCEPT !.i = @ + 1]]
       ELSE
       [chunks |->
            IF flush
            THEN Append(cs, FlushChunk(cs, c, node_type, f.current_headings,
                                       f.parts, f.batch))
            ELSE cs,
        frame |->
            [seeded EXCEPT !.batch = Append(@, element), !.parts = parts2,
                           !.current_content_tokens =
                               @ + element_tokens
                                 + (IF Len(parts2) > 1 THEN NlTokens ELSE 0),
                           !.i = @ + 1]]

\* one iteration of the loop over list items or table rows: flush and seed
\* the overlap when the element does not fit, then append the element;
\* text_of[e] is the text of element e (_stringify_node_content of an item,
\* _format_table_row of a row)
LoopStep(c, cs, f, node_type, element, text_of) ==
    LET element_text == text_of[element]
        element_tokens == count_tokens_in_text(element_text)
        flush == MustFlush(c, f, element_tokens)
        overlap == OverlapOf(c, f.batch)
        overlap_parts == [k \in 1..Len(overlap) |-> text_of[overlap[k]]]
        seeded ==
            IF flush
            THEN [f EXCEPT !.batch = overlap, !.parts = overlap_parts,
                           !.current_content_tokens =
                               count_tokens_in_text(JoinLines(overlap_parts))]
            ELSE f
        parts2 == Append(seeded.parts, element_text)
    IN [chunks |->
            IF flush
            THEN Append(cs, FlushChunk(cs, c, node_type, f.current_headings,
                                       f.parts, f.batch))
            ELSE cs,
        frame |->
            [seeded EXCEPT !.batch = Append(@, element), !.parts = parts2,
                           !.current_content_tokens =
                               @ + element_tokens
                                 + (IF Len(parts2) > 1 THEN NlTokens ELSE 0),
                           !.i = @ + 1]]

\* after the loop: the remaining batch, when there is one, is the last chunk
LoopEnd(c, cs, f, node_type) ==
    IF f.batch /= <<>>
    THEN Append(cs, FlushChunk(cs, c, node_type, f.current_headings, f.parts, f.batch))
    ELSE cs

\* NewHeadings without the padding: the heading's text is appended to the path
NewHeadingsNoPad(current_headings, node) ==
    LET heading_level == Get(node, "level", 1) IN
    IF Len(current_headings) < heading_level
    THEN Append(current_headings, Get(node, "content", BlankText))
    ELSE [i \in 1..heading_level |->
             IF i = heading_level THEN Get(node, "content", BlankText)
             ELSE current_headings[i]]

\* the heading branch of _consolidate_recursive: pad, set, truncate
NewHeadings(current_headings, node) ==
    LET heading_level == Get(node, "level", 1) IN
    [i \in 1..heading_level |->
        IF i = heading_level THEN Get(node, "content", BlankText)
        ELSE IF i <= Len(current_headings) THEN current_headings[i]
        ELSE BlankText]

\* StripIsEmpty that takes no content for empty
StripIsEmptyNever(lines) == FALSE

\* stringified_content.strip() is empty
StripIsEmpty(lines) ==
    \A i \in 1..Len(lines) :
        lines[i].kind = "text" /\ lines[i].marker = "" /\ IsBlank(lines[i].text)

ParagraphChunk(ns, id, current_headings) ==
    LET chunk_text ==
            create_chunk_text(current_headings, stringify_node_content(ns, id, 0))
    IN Chunk(chunk_text,
             [document_id |-> DocumentId, source_type |-> SourceFormat,
              node_type |-> ns[id].type, headings |-> current_headings,
              num_tokens |-> count_tokens_in_text(chunk_text)])

HeaderOnlyChunk(table_header, current_headings) ==
    LET header_text == <<[kind |-> "table_header", cells |-> table_header]>>
        full_chunk_text == create_chunk_text(current_headings, header_text)
    IN Chunk(full_chunk_text,
             [document_id |-> DocumentId, source_type |-> SourceFormat,
              node_type |-> "table_header_only", headings |-> current_headings,
              num_tokens |-> count_tokens_in_text(full_chunk_text)])

---------------------------------------------------------------------------
(* The call stack of apply.  A "nodes" frame is an activation of           *)
(* _consolidate_recursive with the nodes it has still to visit; a "list"   *)
(* or "table" frame is an activation of _process_list_container or         *)
(* _process_table_node inside its loop, i being the next element.          *)

NodesFrame(ids, current_headings) ==
    [kind |-> "nodes", nodes |-> ids, current_headings |-> current_headings]

LoopFrame(kind, id, current_headings) ==
    [kind |-> kind, node |-> id, i |-> 1, current_headings |-> current_headings,
     headings_tokens |-> count_tokens_in_text(create_chunk_text(current_headings, <<>>)),
     batch |-> <<>>, parts |-> <<>>, current_content_tokens |-> 0]

Top == Last(work)

\* _consolidate_recursive is at a node of this type
AtNode(type) ==
    /\ pc = "apply"
    /\ work /= <<>>
    /\ Top.kind = "nodes"
    /\ Top.nodes /= <<>>
    /\ Get(nodes[Head(Top.nodes)], "type", "none") = type

\* the frame once the node at its head has been visited
Advanced == [Top EXCEPT !.nodes = Tail(@)]

InLoop(kind) ==
    /\ pc = "apply"
    /\ work /= <<>>
    /\ Top.kind = kind

Elements(f) ==
    IF f.kind = "list" THEN Get(nodes[f.node], "children", <<>>)
    ELSE Get(nodes[f.node], "data_rows", <<>>)

---------------------------------------------------------------------------
(* Actions of _reconstruct_hierarchy: one per element type *)

Builder == [nodes |-> nodes, root_nodes |-> root_nodes, parent_stack |-> parent_stack]

\* the text of the element at the next input position
NextPos == Len(flat_elements) + 1

Consume(element_data) ==
    /\ pc = "build"
    /\ Len(flat_elements) < MaxLen
    /\ flat_elements' = Append(flat_elements, element_data)
    /\ LET b == ReconstructStep(Builder, element_data) IN
        /\ nodes' = b.nodes
        /\ root_nodes' = b.root_nodes
        /\ parent_stack' = b.parent_stack
    /\ UNCHANGED <<other, pc, cfg, work, chunks>>

ListIds == {-1, 1}

\* header and data rows of a table at input position p: hlen header cells,
\* nrows rows of one cell each, the r-th row's cell of tok[r] tokens
TableAt(p, hlen, nrows, tok) ==
    Table([j \in 1..hlen |-> Text(100 * p + j, 1)],
          [r \in 1..nrows |-> <<Text(100 * p + 10 * r, tok[r])>>])

\* header only, and a header with two data rows
TableShapes == {<<1, 0>>, <<1, 2>>}

BuildHeading ==
    \E level \in 1..MaxHeadingLevel : Consume(Heading(level, Text(NextPos, 1)))

BuildListItem ==
    \E level \in 0..MaxIndent, num_id \in ListIds :
        Consume(ListItem(level, num_id, Text(NextPos, 1)))

BuildParagraph ==
    \E text \in {BlankText, Text(NextPos, 1)} : Consume(Paragraph(text))

BuildTable ==
    \E shape \in TableShapes :
        Consume(TableAt(NextPos, shape[1], shape[2], [r \in 1..shape[2] |-> 1]))

BuildUnknown == Consume(Unknown(Text(NextPos, 1)))

\* return root_nodes
BuildReturn ==
    /\ pc = "build"
    /\ pc' = "built"
    /\ UNCHANGED <<other, flat_elements, nodes, root_nodes, parent_stack, cfg, work, chunks>>

---------------------------------------------------------------------------
(* Actions of DocumentChunker.apply *)

tree == <<flat_elements, nodes, root_nodes, parent_stack>>

\* DocumentChunker(chunk_size, num_overlapping_elements).apply(root_nodes, ...)
Apply(sizes, overlaps) ==
    /\ pc = "built"
    /\ \E chunk_size \in sizes, num_overlapping_elements \in overlaps :
           cfg' = DocumentChunker(chunk_size, num_overlapping_elements)
    /\ chunks' = <<>>
    /\ work' = <<NodesFrame(root_nodes, <<>>)>>
    /\ pc' = "apply"
    /\ UNCHANGED <<other, tree>>

ConsolidateHeading ==
    /\ AtNode("heading")
    /\ LET node == nodes[Head(Top.nodes)]
           new_headings == NewHeadings(Top.current_headings, node)
       IN work' = IF Get(node, "children", <<>>) /= <<>>
                  THEN Front(work) \o <<Advanced, NodesFrame(node.children, new_headings)>>
                  ELSE Front(work) \o <<Advanced>>
    /\ UNCHANGED <<other, tree, pc, cfg, chunks>>

\* ConsolidateParagraph that puts the paragraph's chunk in front of the output
ConsolidateParagraphPrepends ==
    /\ AtNode("paragraph")
    /\ LET id == Head(Top.nodes) IN
       chunks' = IF ~StripIsEmpty(stringify_node_content(nodes, id, 0))
                 THEN <<ParagraphChunk(nodes, id, Top.current_headings)>> \o chunks
                 ELSE chunks
    /\ work' = Front(work) \o <<Advanced>>
    /\ UNCHANGED <<other, tree, pc, cfg>>

ConsolidateParagraph ==
    /\ AtNode("paragraph")
    /\ LET id == Head(Top.nodes) IN
       chunks' = IF ~StripIsEmpty(stringify_node_content(nodes, id, 0))
                 THEN Append(chunks, ParagraphChunk(nodes, id, Top.current_headings))
                 ELSE chunks
    /\ work' = Front(work) \o <<Advanced>>
    /\ UNCHANGED <<other, tree, pc, cfg>>

\* _process_list_container up to its loop
ConsolidateListContainer ==
    /\ AtNode("list_container")
    /\ LET id == Head(Top.nodes) IN
       work' = IF Get(nodes[id], "children", <<>>) = <<>>
               THEN Front(work) \o <<Advanced>>
               ELSE Front(work) \o <<Advanced, LoopFrame("list", id, Top.current_headings)>>
    /\ UNCHANGED <<other, tree, pc, cfg, chunks>>

ListLoopStep ==
    /\ InLoop("list")
    /\ Top.i <= Len(Elements(Top))
    /\ LET r == LoopStep(cfg, chunks, Top, "list_container", Elements(Top)[Top.i],
                         [n \in Range(Elements(Top)) |->
                             stringify_node_content(nodes, n, 0)])
       IN /\ chunks' = r.chunks
          /\ work' = Front(work) \o <<r.frame>>
    /\ UNCHANGED <<other, tree, pc, cfg>>

ListLoopEnd ==
    /\ InLoop("list")
    /\ Top.i > Len(Elements(Top))
    /\ chunks' = LoopEnd(cfg, chunks, Top, "list_container")
    /\ work' = Front(work)
    /\ UNCHANGED <<other, tree, pc, cfg>>

\* ConsolidateTable that skips every table without data rows
ConsolidateTableDropsEmpty ==
    /\ AtNode("table")
    /\ LET id == Head(Top.nodes)
           data_rows == Get(nodes[id], "data_rows", <<>>)
       IN IF data_rows = <<>>
          THEN /\ chunks' = chunks
               /\ work' = Front(work) \o <<Advanced>>
          ELSE /\ chunks' = chunks
               /\ work' = Front(work) \o
                              <<Advanced, LoopFrame("table", id, Top.current_headings)>>
    /\ UNCHANGED <<other, tree, pc, cfg>>

\* _process_table_node up to its loop: a table without data rows gives the
\* header-only chunk when it has a header, and nothing otherwise
ConsolidateTable ==
    /\ AtNode("table")
    /\ LET id == Head(Top.nodes)
           table_header == Get(nodes[id], "header", <<>>)
           data_rows == Get(nodes[id], "data_rows", <<>>)
       IN IF data_rows = <<>>
          THEN /\ chunks' = IF table_header /= <<>>
                            THEN Append(chunks, HeaderOnlyChunk(table_header,
                                                                Top.current_headings))
                            ELSE chunks
               /\ work' = Front(work) \o <<Advanced>>
          ELSE /\ chunks' = chunks
               /\ work' = Front(work) \o
                              <<Advanced, LoopFrame("table", id, Top.current_headings)>>
    /\ UNCHANGED <<other, tree, pc, cfg>>

TableLoopStep ==
    /\ InLoop("table")
    /\ Top.i <= Len(Elements(Top))
    /\ ~format_table_row_raises(Get(nodes[Top.node], "header", <<>>),
                                Elements(Top)[Top.i])
    /\ LET table_header == Get(nodes[Top.node], "header", <<>>)
           r == LoopStep(cfg, chunks, Top, "table_rows", Elements(Top)[Top.i],
                         [row_data \in Range(Elements(Top)) |->
                             format_table_row(table_header, row_data)])
       IN /\ chunks' = r.chunks
          /\ work' = Front(work) \o <<r.frame>>
    /\ UNCHANGED <<other, tree, pc, cfg>>

TableLoopEnd ==
    /\ InLoop("table")
    /\ Top.i > Len(Elements(Top))
    /\ chunks' = LoopEnd(cfg, chunks, Top, "table_rows")
    /\ work' = Front(work)
    /\ UNCHANGED <<other, tree, pc, cfg>>

\* _format_table_row raises: the error leaves apply, which returns nothing
TableLoopRaise ==
    /\ InLoop("table")
    /\ Top.i <= Len(Elements(Top))
    /\ format_table_row_raises(Get(nodes[Top.node], "header", <<>>),
                               Elements(Top)[Top.i])
    /\ pc' = "error"
    /\ work' = <<>>
    /\ chunks' = <<>>
    /\ UNCHANGED <<other, tree, cfg>>

\* the types _consolidate_recursive has a branch for
ConsolidatedTypes == {"heading", "list_container", "table", "paragraph"}

\* a node of any other type matches no branch: the loop goes on
ConsolidateSkip ==
    /\ pc = "apply"
    /\ work /= <<>>
    /\ Top.kind = "nodes"
    /\ Top.nodes /= <<>>
    /\ Get(nodes[Head(Top.nodes)], "type", "none") \notin ConsolidatedTypes
    /\ work' = Front(work) \o <<Advanced>>
    /\ UNCHANGED <<other, tree, pc, cfg, chunks>>

\* the for loop of _consolidate_recursive is over: return to the caller, and
\* from the outermost activation return chunks
ConsolidateReturn ==
    /\ pc = "apply"
    /\ work /= <<>>
    /\ Top.kind = "nodes"
    /\ Top.nodes = <<>>
    /\ work' = Front(work)
    /\ pc' = IF Len(work) = 1 THEN "done" ELSE pc
    /\ UNCHANGED <<other, tree, cfg, chunks>>

Consolidate ==
    \/ ConsolidateHeading
    \/ ConsolidateParagraph
    \/ ConsolidateListContainer
    \/ ListLoopStep
    \/ ListLoopEnd
    \/ ConsolidateTable
    \/ TableLoopStep
    \/ TableLoopEnd
    \/ ConsolidateReturn

---------------------------------------------------------------------------
(* Spec: any document of at most MaxLen elements is built, then chunked *)

NoConfig == DocumentChunker(0, 0)

SpecOverlaps == {0, 1}

\* the locals of a call that has not taken a step yet
FreshCall ==
    [flat_elements |-> <<>>, nodes |-> <<>>, root_nodes |-> <<>>,
     parent_stack |-> <<>>, pc |-> "build", work |-> <<>>, chunks |-> <<>>]

Init ==
    /\ other = FreshCall
    /\ flat_elements = <<>>
    /\ nodes = <<>>
    /\ root_nodes = <<>>
    /\ parent_stack = <<>>
    /\ pc = "build"
    /\ cfg = NoConfig
    /\ work = <<>>
    /\ chunks = <<>>

SpecApply == Apply({SpecChunkSize}, SpecOverlaps)

Next ==
    \/ BuildHeading
    \/ BuildListItem
    \/ BuildParagraph
    \/ BuildTable
    \/ BuildUnknown
    \/ BuildReturn
    \/ SpecApply
    \/ ConsolidateHeading
    \/ ConsolidateParagraph
    \/ ConsolidateListContainer
    \/ ListLoopStep
    \/ ListLoopEnd
    \/ ConsolidateTable
    \/ TableLoopStep
    \/ TableLoopEnd
    \/ ConsolidateReturn

Spec == Init /\ [][Next]_vars

---------------------------------------------------------------------------
(* SplitSpec: one list container or one table of up to MaxItems elements   *)
(* of 1..MaxTok tokens each, alone or under a heading, is built and then   *)
(* chunked under every chunk_size and num_overlapping_elements             *)

SplitHeadings == {<<>>, <<Heading(1, Text(1, 1))>>}

SplitListInput(hs, n, tok) ==
    hs \o [k \in 1..n |-> ListItem(0, 1, Text(Len(hs) + k, tok[k]))]

SplitTableInput(hs, n, tok) ==
    hs \o <<TableAt(Len(hs) + 1, 0, n, tok)>>

SplitInputs ==
    UNION { UNION { { SplitListInput(hs, n, tok), SplitTableInput(hs, n, tok) } :
                        tok \in [1..n -> 1..MaxTok] } :
                hs \in SplitHeadings, n \in 1..MaxItems }

SplitInit ==
    /\ other = FreshCall
    /\ flat_elements \in SplitInputs
    /\ LET b == reconstruct_hierarchy(flat_elements) IN
        /\ nodes = b.nodes
        /\ root_nodes = b.root_nodes
        /\ parent_stack = b.parent_stack
    /\ pc = "built"
    /\ cfg = NoConfig
    /\ work = <<>>
    /\ chunks = <<>>

SplitApply == Apply(1..MaxChunkSize, 0..MaxOverlap)

SplitNext ==
    \/ SplitApply
    \/ ConsolidateHeading
    \/ ConsolidateListContainer
    \/ ListLoopStep
    \/ ListLoopEnd
    \/ ConsolidateTable
    \/ TableLoopStep
    \/ TableLoopEnd
    \/ ConsolidateReturn

SplitSpec == SplitInit /\ [][SplitNext]_vars

---------------------------------------------------------------------------
(* EdgeSpec: apply at the edges of its contract.  A document of at most    *)
(* EdgeLen elements is built, or apply is handed a tree that another       *)
(* parser built (nodes of foreign types, table cells that are not strings, *)
(* a header-only table, a list of five equal items), and the chunker is    *)
(* constructed with any chunk_size and num_overlapping_elements, zero and  *)
(* negative ones included.                                                 *)

EdgeLen == 2           \* elements per built document in EdgeSpec

Node(element_data, children) ==
    [MakeNode(element_data) EXCEPT !.children = children]

\* a root list container of n items of tok tokens each
ListTree(n, tok) ==
    [nodes |-> <<[type |-> "list_container", level |-> 0, num_id |-> 1,
                  children |-> [k \in 1..n |-> k + 1]]>>
               \o [k \in 1..n |-> MakeNode(ListItem(0, 1, Text(k, tok)))],
     root_nodes |-> <<1>>]

\* a root table of hlen header cells and two rows of one cell, the second
\* row's cell not a str
MalformedTable(hlen) ==
    [nodes |-> <<MakeNode(Table([j \in 1..hlen |-> Text(j, 1)],
                                <<<<Text(10, 1)>>, <<NonString(20)>>>>))>>,
     root_nodes |-> <<1>>]

\* a root table with the header [Name, Age] and no data row
HeaderOnlyTable ==
    [nodes |-> <<MakeNode(Table(<<Text(1, 1), Text(2, 1)>>, <<>>))>>,
     root_nodes |-> <<1>>]

\* nodes of a foreign type: one between a heading and its paragraph, one
\* between two root paragraphs, one below a list item
ForeignNodesTree ==
    [nodes |-> <<Node(Heading(1, Text(1, 1)), <<2, 3>>),
                 MakeNode(Unknown(Text(2, 1))),
                 MakeNode(Paragraph(Text(3, 1))),
                 MakeNode(Paragraph(Text(4, 1))),
                 MakeNode(Unknown(Text(5, 1))),
                 MakeNode(Paragraph(Text(6, 1))),
                 [type |-> "list_container", level |-> 0, num_id |-> 1,
                  children |-> <<8>>],
                 Node(ListItem(0, 1, Text(8, 1)), <<9>>),
                 MakeNode(Unknown(Text(9, 1)))>>,
     root_nodes |-> <<1, 4, 5, 6, 7>>]

ForeignTrees ==
    {ListTree(5, tok) : tok \in 1..MaxTok}
        \cup {MalformedTable(hlen) : hlen \in 0..2}
        \cup {HeaderOnlyTable, ForeignNodesTree}

\* apply is handed the tree of another parser
AdoptTree ==
    /\ pc = "build"
    /\ flat_elements = <<>>
    /\ \E t \in ForeignTrees :
          /\ nodes' = t.nodes
          /\ root_nodes' = t.root_nodes
    /\ pc' = "built"
    /\ UNCHANGED <<other, flat_elements, parent_stack, cfg, work, chunks>>

EdgeBuildHeading == Len(flat_elements) < EdgeLen /\ BuildHeading
EdgeBuildListItem == Len(flat_elements) < EdgeLen /\ BuildListItem
EdgeBuildParagraph == Len(flat_elements) < EdgeLen /\ BuildParagraph
EdgeBuildTable == Len(flat_elements) < EdgeLen /\ BuildTable
EdgeBuildUnknown == Len(flat_elements) < EdgeLen /\ BuildUnknown

\* __init__ takes any two integers
EdgeSizes == {-1, 0, SpecChunkSize}
EdgeOverlaps == {-1, 0, 1}

EdgeApply == Apply(EdgeSizes, EdgeOverlaps)

EdgeNext ==
    \/ EdgeBuildHeading
    \/ EdgeBuildListItem
    \/ EdgeBuildParagraph
    \/ EdgeBuildTable
    \/ EdgeBuildUnknown
    \/ BuildReturn
    \/ AdoptTree
    \/ EdgeApply
    \/ ConsolidateHeading
    \/ ConsolidateParagraph
    \/ ConsolidateListContainer
    \/ ListLoopStep
    \/ ListLoopEnd
    \/ ConsolidateTable
    \/ TableLoopStep
    \/ TableLoopRaise
    \/ TableLoopEnd
    \/ ConsolidateSkip
    \/ ConsolidateReturn

EdgeSpec == Init /\ [][EdgeNext]_vars

---------------------------------------------------------------------------
(* ConcSpec: two calls on the same parser and the same chunker instance,   *)
(* each building and then chunking a document of its own, with their steps *)
(* interleaved in every order: the call that runs can change between any   *)
(* two steps.                                                              *)

\* CallLocal with the output list kept on the instance instead of in a local
CallLocalButChunks ==
    {"flat_elements", "nodes", "root_nodes", "parent_stack", "pc", "work"}

\* what a call keeps in locals: root_nodes and parent_stack of
\* _reconstruct_hierarchy, chunks of apply, the arguments and the position
CallLocal ==
    {"flat_elements", "nodes", "root_nodes", "parent_stack", "pc", "work",
     "chunks"}

\* the state as the running call sees it
Locals ==
    [flat_elements |-> flat_elements, nodes |-> nodes, root_nodes |-> root_nodes,
     parent_stack |-> parent_stack, pc |-> pc, work |-> work, chunks |-> chunks]

\* what the call that resumes sees: its own locals, and whatever is not a
\* local as the other call left it
Resumed == [name \in DOMAIN Locals |->
               IF name \in CallLocal THEN other[name] ELSE Locals[name]]

\* the other call runs from here on
Switch ==
    /\ other' = [name \in DOMAIN Locals |->
                    IF name \in CallLocal THEN Locals[name] ELSE other[name]]
    /\ flat_elements' = Resumed.flat_elements
    /\ nodes' = Resumed.nodes
    /\ root_nodes' = Resumed.root_nodes
    /\ parent_stack' = Resumed.parent_stack
    /\ pc' = Resumed.pc
    /\ work' = Resumed.work
    /\ chunks' = Resumed.chunks
    /\ UNCHANGED cfg

\* the documents of the two calls: a list of three items, and a heading
\* with a paragraph and a table of two rows
ConcDocs ==
    {[k \in 1..3 |-> ListItem(0, 1, Text(k, 1))],
     <<Heading(1, Text(1, 1)), Paragraph(Text(2, 1)),
       TableAt(3, 1, 2, [r \in 1..2 |-> 1])>>}

IsPrefix(s, t) == Len(s) <= Len(t) /\ s = SubSeq(t, 1, Len(s))

ConcInput == \E d \in ConcDocs : IsPrefix(flat_elements, d)

ConcBuildHeading == BuildHeading /\ ConcInput'
ConcBuildListItem == BuildListItem /\ ConcInput'
ConcBuildParagraph == BuildParagraph /\ ConcInput'
ConcBuildTable == BuildTable /\ ConcInput'

\* the chunker is constructed once, before the calls
ConcInit ==
    /\ other = FreshCall
    /\ flat_elements = <<>>
    /\ nodes = <<>>
    /\ root_nodes = <<>>
    /\ parent_stack = <<>>
    /\ pc = "build"
    /\ cfg \in {DocumentChunker(SpecChunkSize, n) : n \in SpecOverlaps}
    /\ work = <<>>
    /\ chunks = <<>>

ConcApply == Apply({cfg.chunk_size}, {cfg.num_overlapping_elements})

ConcNext ==
    \/ ConcBuildHeading
    \/ ConcBuildListItem
    \/ ConcBuildParagraph
    \/ ConcBuildTable
    \/ BuildReturn
    \/ ConcApply
    \/ ConsolidateHeading
    \/ ConsolidateParagraph
    \/ ConsolidateListContainer
    \/ ListLoopStep
    \/ ListLoopEnd
    \/ ConsolidateTable
    \/ TableLoopStep
    \/ TableLoopEnd
    \/ ConsolidateReturn
    \/ Switch

ConcSpec == ConcInit /\ [][ConcNext]_vars

---------------------------------------------------------------------------
(* Reading the tree and the chunks back *)

RecognizedTypes == {"heading", "paragraph", "list_item", "table"}

\* the ids of the nodes made from input elements, in input order; the
\* synthetic list containers are left out
ElemNodes == SelectSeq([i \in 1..Len(nodes) |-> i],
                       LAMBDA i : nodes[i].type /= "list_container")

\* the input positions of the elements of a recognized type, in order
RecognizedPos == SelectSeq([p \in 1..Len(flat_elements) |-> p],
                           LAMBDA p : flat_elements[p].type \in RecognizedTypes)

\* the k-th recognized element, as given in the input
ElemAt(k) == flat_elements[RecognizedPos[k]]

\* the node ids below node id (children, their children, ...)
RECURSIVE Descendants(_)
Descendants(id) ==
    LET ch == Range(nodes[id].children)
    IN ch \cup UNION {Descendants(c) : c \in ch}

\* the nodes with id among their descendants
Ancestors(id) == {a \in 1..Len(nodes) : id \in Descendants(a)}

ParentOf(id) == {a \in 1..Len(nodes) : id \in Range(nodes[a].children)}

\* the rank (1-based) of node id among the element nodes
RankOf(id) == CHOOSE k \in 1..Len(ElemNodes) : ElemNodes[k] = id

HeadingRanks == {k \in 1..Len(ElemNodes) : nodes[ElemNodes[k]].type = "heading"}

\* the rank of the first heading after rank k whose level is <= that of the
\* heading at rank k; one past the end of the input when there is none
ClosingRank(k) ==
    LET closers == {j \in HeadingRanks :
                       j > k /\ ElemAt(j).level <= ElemAt(k).level}
    IN IF closers = {} THEN Len(RecognizedPos) + 1
       ELSE CHOOSE j \in closers : \A j2 \in closers : j <= j2

\* the node made from the element at input position p
NodeAtPos(p) == ElemNodes[CHOOSE k \in 1..Len(RecognizedPos) : RecognizedPos[k] = p]

\* the input position a text id belongs to: a table's cells are numbered
\* from 100 times the table's position
PosOfId(id) == IF id >= 100 THEN id \div 100 ELSE id

\* index of the "---" line closing the heading prefix of a chunk text, 0 when
\* the text has no prefix
RuleIdx(text) ==
    LET r == {i \in 1..Len(text) : text[i].kind = "rule"}
    IN IF r = {} THEN 0 ELSE CHOOSE i \in r : TRUE

PrefixOf(c) == SubSeq(c.text, 1, RuleIdx(c.text))

\* the chunk's text after the heading prefix
ContentOf(c) == SubSeq(c.text, RuleIdx(c.text) + 1, Len(c.text))

\* the line opens an element of a batch: a table row, a header line, or a
\* line that is not indented (the lines of nested items are)
StartsElement(line) ==
    \/ line.kind \in {"row", "table_header"}
    \/ line.kind = "text" /\ line.indent = 0

\* the text ids on a line, in order
LineIds(line) ==
    IF line.kind = "row" THEN [i \in 1..Len(line.cells) |-> line.cells[i].cell.id]
    ELSE IF line.kind = "table_header"
    THEN [i \in 1..Len(line.cells) |-> line.cells[i].id]
    ELSE IF line.kind = "text" /\ ~IsBlank(line.text) THEN <<line.text.id>>
    ELSE <<>>

\* indices of the content lines that open an element
StartIdx(content) ==
    SelectSeq([i \in 1..Len(content) |-> i], LAMBDA i : StartsElement(content[i]))

\* the lines of the k-th element of the chunk's batch
ElementLines(c, k) ==
    LET content == ContentOf(c)
        st == StartIdx(content)
    IN SubSeq(content, st[k],
              IF k < Len(st) THEN st[k + 1] - 1 ELSE Len(content))

BatchLen(c) == Len(StartIdx(ContentOf(c)))

\* the id of the k-th element of the chunk's batch: that of its first text
BatchId(c, k) == LineIds(ElementLines(c, k)[1])[1]

BatchIds(c) == [k \in 1..BatchLen(c) |-> BatchId(c, k)]

\* all text ids of a sequence of lines, in order
IdsOf(lines) == Flatten([i \in 1..Len(lines) |-> LineIds(lines[i])])

\* the node a chunk was made from: the one of its batch's first element
SourceNode(c) == NodeAtPos(PosOfId(BatchId(c, 1)))

IsContainerChunk(c) == c.metadata.node_type \in {"list_container", "table_rows"}

\* the list container or the table a list_container / table_rows chunk is of
ContainerOf(c) ==
    IF c.metadata.node_type = "table_rows" THEN SourceNode(c)
    ELSE CHOOSE a \in ParentOf(SourceNode(c)) : TRUE

\* metadata.get("overlap_elements", 0)
OverlapElements(c) == Get(c.metadata, "overlap_elements", 0)

\* metadata.get("has_overlap", False)
HasOverlap(c) == Get(c.metadata, "has_overlap", FALSE)

---------------------------------------------------------------------------
(* C1: after _reconstruct_hierarchy, every child of every list_container   *)
(* is a list_item with the container's level and num_id; a container has   *)
(* no heading, paragraph, table or list_container as a direct child.       *)

C1_ListGrouping ==
    \A c \in 1..Len(nodes) :
        nodes[c].type = "list_container" =>
            \A k \in 1..Len(nodes[c].children) :
                LET child == nodes[nodes[c].children[k]] IN
                /\ child.type = "list_item"
                /\ child.level = nodes[c].level
                /\ child.num_id = nodes[c].num_id

\* a built tree with a container of two items that holds a nested container
\* and follows a container of another list
C1_Witness ==
    /\ pc = "built"
    /\ \E c \in 1..Len(nodes) :
          /\ nodes[c].type = "list_container"
          /\ Len(nodes[c].children) >= 2
          /\ \E d \in Descendants(c) : nodes[d].type = "list_container"

---------------------------------------------------------------------------
(* C2: the input elements in the subtree of a heading node h are exactly   *)
(* the recognized elements that follow h in the input up to, not           *)
(* including, the next heading of level <= h's level, or up to the end of  *)
(* the input.  Elements of an unrecognized type make no node and are not   *)
(* counted on either side.                                                 *)

C2_HeadingRun ==
    /\ Len(ElemNodes) = Len(RecognizedPos)
    /\ \A k \in HeadingRanks :
          {RankOf(d) : d \in {x \in Descendants(ElemNodes[k]) :
                                 nodes[x].type /= "list_container"}}
              = (k + 1)..(ClosingRank(k) - 1)

\* a built tree in which a heading with a list below it is closed by a later
\* heading
C2_Witness ==
    /\ pc = "built"
    /\ \E k \in HeadingRanks :
          /\ ClosingRank(k) <= Len(RecognizedPos)
          /\ ClosingRank(k) > k + 1
          /\ \E d \in Descendants(ElemNodes[k]) : nodes[d].type = "list_item"

---------------------------------------------------------------------------
(* C3: metadata.headings of every chunk is the heading path of the chunk's *)
(* source element: as long as the level of the nearest enclosing heading   *)
(* (empty when there is none), entry i the text of the enclosing heading   *)
(* of level i, or the empty string when no enclosing heading has that      *)
(* level; the text of a heading closed before the element is not in it.    *)

EnclosingHeadings(id) == {a \in Ancestors(id) : nodes[a].type = "heading"}

\* the enclosing heading with no other enclosing heading below it
NearestHeading(id) ==
    CHOOSE a \in EnclosingHeadings(id) :
        \A a2 \in EnclosingHeadings(id) : a2 = a \/ a \in Descendants(a2)

C3_HeadingPath ==
    \A j \in 1..Len(chunks) :
        LET n == SourceNode(chunks[j])
            encl == EnclosingHeadings(n)
            headings == chunks[j].metadata.headings
            depth == IF encl = {} THEN 0 ELSE nodes[NearestHeading(n)].level
        IN /\ Len(headings) = depth
           /\ \A i \in 1..depth :
                 /\ \A a \in encl : nodes[a].level = i => headings[i] = nodes[a].content
                 /\ (\A a \in encl : nodes[a].level /= i) => headings[i] = BlankText
           /\ \A k \in HeadingRanks :
                 ClosingRank(k) <= RankOf(n) => ElemAt(k).content \notin Range(headings)

\* apply has returned a chunk made below a heading that follows a closed
\* heading, and a chunk whose path has a gap
C3_Witness ==
    /\ pc = "done"
    /\ \E j \in 1..Len(chunks) :
          /\ Len(chunks[j].metadata.headings) >= 1
          /\ \E k \in HeadingRanks : ClosingRank(k) <= RankOf(SourceNode(chunks[j]))

---------------------------------------------------------------------------
(* C4: the contents of the chunks, concatenated in order, hold the text of *)
(* every input heading, paragraph, list item and table row, in input       *)
(* order, and a text is repeated only inside the leading overlap_elements  *)
(* elements of a chunk.                                                    *)

\* the texts of the input, in order: a heading's, paragraph's and list
\* item's content when it is not blank, and the cells of a table's data rows
InputTextIds ==
    Flatten([k \in 1..Len(RecognizedPos) |->
        LET e == ElemAt(k) IN
        IF e.type = "table"
        THEN Flatten([r \in 1..Len(e.data_rows) |->
                         [i \in 1..Len(e.data_rows[r]) |-> e.data_rows[r][i].id]])
        ELSE IF IsBlank(e.content) THEN <<>> ELSE <<e.content.id>>])

\* the texts of all chunk contents, in order
AllContentIds == Flatten([j \in 1..Len(chunks) |-> IdsOf(ContentOf(chunks[j]))])

FirstIndex(s, x) == CHOOSE i \in 1..Len(s) : s[i] = x /\ \A i2 \in 1..(i - 1) : s[i2] /= x

\* the texts in the elements of chunk c that its overlap_elements counts
CountedRepeats(c) ==
    UNION {Range(IdsOf(ElementLines(c, k))) :
              k \in 1..Min(OverlapElements(c), BatchLen(c))}

C4_Coverage ==
    pc = "done" =>
        /\ \A i \in 1..Len(InputTextIds) :
              /\ InputTextIds[i] \in Range(AllContentIds)
              /\ \A i2 \in 1..(i - 1) :
                    FirstIndex(AllContentIds, InputTextIds[i2])
                        < FirstIndex(AllContentIds, InputTextIds[i])
        /\ \A j \in 1..Len(chunks) :
              \A x \in Range(IdsOf(ContentOf(chunks[j]))) \ CountedRepeats(chunks[j]) :
                 \A j2 \in 1..(j - 1) : x \notin Range(IdsOf(ContentOf(chunks[j2])))

---------------------------------------------------------------------------
(* C5: the first chunk emitted for a list container or a table has         *)
(* has_overlap = False and overlap_elements = 0, also for the second and   *)
(* later containers of one apply call.                                     *)

\* chunk j is the first one of its container
FirstOfContainer(j) ==
    /\ IsContainerChunk(chunks[j])
    /\ \A j2 \in 1..(j - 1) :
          IsContainerChunk(chunks[j2]) => ContainerOf(chunks[j2]) /= ContainerOf(chunks[j])

C5_FirstChunkNoOverlap ==
    \A j \in 1..Len(chunks) :
        FirstOfContainer(j) =>
            /\ HasOverlap(chunks[j]) = FALSE
            /\ OverlapElements(chunks[j]) = 0

---------------------------------------------------------------------------
(* Containers and their chunks *)

\* the list containers and tables _consolidate_recursive reaches: roots and
\* children of headings (a container below a list item is part of the item)
ChunkedContainers ==
    {n \in 1..Len(nodes) :
        /\ nodes[n].type \in {"list_container", "table"}
        /\ \A a \in ParentOf(n) : nodes[a].type = "heading"}

\* the elements the splitting loop of container n goes through
ElementsOf(n) ==
    IF nodes[n].type = "list_container" THEN nodes[n].children
    ELSE Get(nodes[n], "data_rows", <<>>)

\* the text of the k-th element of container n
ElementText(n, k) ==
    IF nodes[n].type = "list_container"
    THEN stringify_node_content(nodes, ElementsOf(n)[k], 0)
    ELSE format_table_row(Get(nodes[n], "header", <<>>), ElementsOf(n)[k])

\* the ids of the elements of container n, in order
ElementIds(n) == [k \in 1..Len(ElementsOf(n)) |-> LineIds(ElementText(n, k)[1])[1]]

\* the index in its container of the k-th element of chunk c's batch
IndexInContainer(c, k) ==
    LET ids == ElementIds(ContainerOf(c))
    IN CHOOSE i \in 1..Len(ids) : ids[i] = BatchId(c, k)

\* indices of the chunks of container n, in output order
ChunksOf(n) ==
    SelectSeq([j \in 1..Len(chunks) |-> j],
              LAMBDA j : IsContainerChunk(chunks[j]) /\ ContainerOf(chunks[j]) = n)

\* chunks j and j + 1 are consecutive chunks of one container
SameContainerNext(j) ==
    /\ j + 1 <= Len(chunks)
    /\ IsContainerChunk(chunks[j])
    /\ IsContainerChunk(chunks[j + 1])
    /\ ContainerOf(chunks[j]) = ContainerOf(chunks[j + 1])

\* how many leading elements of chunk j's batch are repeated from the
\* previous chunk of its container
SeedLen(j) ==
    IF j > 1 /\ SameContainerNext(j - 1)
    THEN Cardinality({k \in 1..BatchLen(chunks[j]) :
                         BatchId(chunks[j], k) \in Range(BatchIds(chunks[j - 1]))})
    ELSE 0

\* tokens of the heading prefix of chunk c
HeadingTokensOf(c) ==
    count_tokens_in_text(create_chunk_text(c.metadata.headings, <<>>))

\* tokens of the first m elements of chunk c's batch, joined
ContentTokensOf(c, m) ==
    count_tokens_in_text(Flatten([k \in 1..m |-> ElementLines(c, k)]))

---------------------------------------------------------------------------
(* C6: overlap_elements of every chunk (0 when the key is absent) is <=    *)
(* num_overlapping_elements and <= the number of elements of the chunk's   *)
(* batch, also when the overlap exceeds the container's element count.     *)

C6_OverlapBound ==
    \A j \in 1..Len(chunks) :
        /\ OverlapElements(chunks[j]) <= cfg.num_overlapping_elements
        /\ OverlapElements(chunks[j]) <= BatchLen(chunks[j])

\* an overlap larger than the container, and a chunk that reports overlap
C6_Witness ==
    /\ pc = "done"
    /\ \E n \in ChunkedContainers : cfg.num_overlapping_elements > Len(ElementsOf(n))
    /\ \E j \in 1..Len(chunks) : OverlapElements(chunks[j]) > 0

---------------------------------------------------------------------------
(* C7: the chunk after a flushed batch of the same container begins with   *)
(* exactly the last N elements of that batch, in order, when N > 0 and the *)
(* batch holds at least N elements, and with no repeated element           *)
(* otherwise; the element after the seed is the one that follows the       *)
(* flushed batch in the container.                                         *)

ExpectedSeed(j) ==
    LET b == BatchIds(chunks[j])
        N == cfg.num_overlapping_elements
    IN IF N > 0 /\ Len(b) >= N THEN SubSeq(b, Len(b) - N + 1, Len(b)) ELSE <<>>

C7_OverlapSeed ==
    \A j \in 1..Len(chunks) :
        SameContainerNext(j) =>
            LET seed == ExpectedSeed(j)
                nxt == chunks[j + 1]
            IN /\ BatchLen(nxt) > Len(seed)
               /\ SubSeq(BatchIds(nxt), 1, Len(seed)) = seed
               /\ IndexInContainer(nxt, Len(seed) + 1)
                      = IndexInContainer(chunks[j], BatchLen(chunks[j])) + 1

\* a chunk seeded with two elements, after a chunk that was too short to
\* seed any
C7_Witness ==
    /\ pc = "done"
    /\ cfg.num_overlapping_elements = 2
    /\ \E j \in 1..Len(chunks) : SameContainerNext(j) /\ Len(ExpectedSeed(j)) = 2
    /\ \E j \in 1..Len(chunks) : SameContainerNext(j) /\ BatchLen(chunks[j]) = 1

---------------------------------------------------------------------------
(* C8 as claimed: in every list or table chunk whose batch holds at least  *)
(* 2 elements, seeded ones included, the batch without its last element    *)
(* has headingTokens + contentTokens <= chunk_size.                        *)

C8_SoftBudget ==
    \A j \in 1..Len(chunks) :
        (IsContainerChunk(chunks[j]) /\ BatchLen(chunks[j]) >= 2) =>
            HeadingTokensOf(chunks[j])
                + ContentTokensOf(chunks[j], BatchLen(chunks[j]) - 1)
                <= cfg.chunk_size

(* C8 as amended: in every list or table chunk whose batch holds at least  *)
(* 2 elements that are not overlap-seeded repeats of the previous chunk,   *)
(* the batch without its last element has headingTokens + contentTokens    *)
(* <= chunk_size.                                                          *)

C8_SoftBudgetFresh ==
    \A j \in 1..Len(chunks) :
        (IsContainerChunk(chunks[j]) /\ BatchLen(chunks[j]) - SeedLen(j) >= 2) =>
            HeadingTokensOf(chunks[j])
                + ContentTokensOf(chunks[j], BatchLen(chunks[j]) - 1)
                <= cfg.chunk_size

\* a chunk with a seeded element followed by two fresh ones
C8_Witness ==
    /\ pc = "done"
    /\ \E j \in 1..Len(chunks) :
          /\ SeedLen(j) >= 1
          /\ BatchLen(chunks[j]) - SeedLen(j) >= 2

---------------------------------------------------------------------------
(* C9: a list item or table row whose own tokens exceed chunk_size is      *)
(* emitted whole in some chunk, and with num_overlapping_elements = 0      *)
(* every chunk that holds it holds nothing else.                           *)

Oversized(n, k) == count_tokens_in_text(ElementText(n, k)) > cfg.chunk_size

\* chunk c holds the whole text of the k-th element of container n
HoldsElement(c, n, k) ==
    /\ IsContainerChunk(c)
    /\ ContainerOf(c) = n
    /\ \E m \in 1..BatchLen(c) : ElementLines(c, m) = ElementText(n, k)

C9_OversizedWhole ==
    pc = "done" =>
        \A n \in ChunkedContainers :
            \A k \in 1..Len(ElementsOf(n)) :
                Oversized(n, k) =>
                    /\ \E j \in 1..Len(chunks) : HoldsElement(chunks[j], n, k)
                    /\ cfg.num_overlapping_elements = 0 =>
                          \A j \in 1..Len(chunks) :
                              ElementIds(n)[k] \in Range(IdsOf(ContentOf(chunks[j])))
                                  => BatchLen(chunks[j]) = 1

\* an oversized element between two elements that fit, without overlap
C9_Witness ==
    /\ pc = "done"
    /\ cfg.num_overlapping_elements = 0
    /\ \E n \in ChunkedContainers :
          \E k \in 2..(Len(ElementsOf(n)) - 1) :
              /\ Oversized(n, k)
              /\ ~Oversized(n, k - 1)
              /\ ~Oversized(n, k + 1)

---------------------------------------------------------------------------
(* C10: splitting a container of n >= 1 elements terminates with at least  *)
(* 1 and at most n chunks, each of a non-empty batch whose last element is *)
(* later in the container than the last element of the previous chunk.     *)
(* Termination: the loop index never passes the end of the container, and *)
(* every step of a splitting loop moves to the next element or leaves the  *)
(* loop, so a loop over n elements ends within n + 1 steps.                *)

C10_Counts ==
    /\ \A j \in 1..Len(chunks) : BatchLen(chunks[j]) >= 1
    /\ \A j \in 1..Len(chunks) :
          SameContainerNext(j) =>
              IndexInContainer(chunks[j + 1], BatchLen(chunks[j + 1]))
                  > IndexInContainer(chunks[j], BatchLen(chunks[j]))
    /\ \A n \in ChunkedContainers :
          /\ Len(ChunksOf(n)) <= Len(ElementsOf(n))
          /\ (pc = "done" /\ Len(ElementsOf(n)) >= 1) => Len(ChunksOf(n)) >= 1
    /\ (pc = "apply" /\ work /= <<>> /\ Top.kind \in {"list", "table"}) =>
          /\ Top.i <= Len(Elements(Top)) + 1
          /\ Len(ChunksOf(Top.node)) <= Top.i - 1

C10_LoopAdvances ==
    (pc = "apply" /\ work /= <<>> /\ Top.kind \in {"list", "table"}) =>
        \/ Len(work') < Len(work)
        \/ /\ Len(work') = Len(work)
           /\ Top'.node = Top.node
           /\ Top'.i = Top.i + 1

C10_Terminates == [](C10_Counts) /\ [][C10_LoopAdvances]_vars

\* apply has returned after splitting a container of MaxItems elements into
\* as many chunks, with an overlap larger than the container
C10_Witness ==
    /\ pc = "done"
    /\ \E n \in ChunkedContainers :
          /\ Len(ElementsOf(n)) = MaxItems
          /\ Len(ChunksOf(n)) = MaxItems
          /\ cfg.num_overlapping_elements > 0

---------------------------------------------------------------------------
(* apply as a function of the chunker and the tree: the result of one call *)
(* that runs alone, [chunks, raised].                                      *)

\* the loop of _process_list_container / _process_table_node from frame f on
RECURSIVE RunLoop(_, _, _, _, _, _)
RunLoop(c, cs, f, node_type, elements, text_of) ==
    IF f.i > Len(elements) THEN LoopEnd(c, cs, f, node_type)
    ELSE LET r == LoopStep(c, cs, f, node_type, elements[f.i], text_of)
         IN RunLoop(c, r.chunks, r.frame, node_type, elements, text_of)

process_list_container(c, ns, id, current_headings, cs) ==
    LET list_items == Get(ns[id], "children", <<>>) IN
    IF list_items = <<>> THEN cs
    ELSE RunLoop(c, cs, LoopFrame("list", id, current_headings), "list_container",
                 list_items,
                 [n \in Range(list_items) |-> stringify_node_content(ns, n, 0)])

\* out is [chunks, raised]
process_table_node(c, ns, id, current_headings, out) ==
    LET table_header == Get(ns[id], "header", <<>>)
        data_rows == Get(ns[id], "data_rows", <<>>)
    IN IF data_rows = <<>>
       THEN IF table_header /= <<>>
            THEN [out EXCEPT !.chunks =
                     Append(@, HeaderOnlyChunk(table_header, current_headings))]
            ELSE out
       ELSE IF \E r \in 1..Len(data_rows) :
                   format_table_row_raises(table_header, data_rows[r])
       THEN [chunks |-> <<>>, raised |-> TRUE]
       ELSE [out EXCEPT !.chunks =
                RunLoop(c, @, LoopFrame("table", id, current_headings), "table_rows",
                        data_rows,
                        [row_data \in Range(data_rows) |->
                            format_table_row(table_header, row_data)])]

RECURSIVE consolidate_recursive(_, _, _, _, _)
consolidate_recursive(c, ns, ids, current_headings, out) ==
    IF ids = <<>> \/ out.raised THEN out
    ELSE LET id == Head(ids)
             node == ns[id]
             node_type == Get(node, "type", "none")
             after ==
                 IF node_type = "heading"
                 THEN IF Get(node, "children", <<>>) /= <<>>
                      THEN consolidate_recursive(c, ns, node.children,
                                                 NewHeadings(current_headings, node), out)
                      ELSE out
                 ELSE IF node_type = "list_container"
                 THEN [out EXCEPT !.chunks =
                          process_list_container(c, ns, id, current_headings, @)]
                 ELSE IF node_type = "table"
                 THEN process_table_node(c, ns, id, current_headings, out)
                 ELSE IF node_type = "paragraph"
                 THEN IF ~StripIsEmpty(stringify_node_content(ns, id, 0))
                      THEN [out EXCEPT !.chunks =
                               Append(@, ParagraphChunk(ns, id, current_headings))]
                      ELSE out
                 ELSE out
         IN consolidate_recursive(c, ns, Tail(ids), current_headings, after)

apply_result(c, ns, elements) ==
    consolidate_recursive(c, ns, elements, <<>>, [chunks |-> <<>>, raised |-> FALSE])

\* the stepwise apply and the function agree
ApplyAgrees ==
    /\ pc = "done" =>
          apply_result(cfg, nodes, root_nodes) = [chunks |-> chunks, raised |-> FALSE]
    /\ pc = "error" => apply_result(cfg, nodes, root_nodes).raised

---------------------------------------------------------------------------
(* C11: a chunker with chunk_size <= 0 or a negative                       *)
(* num_overlapping_elements is rejected at construction, so apply never    *)
(* runs under such a configuration.                                        *)

C11_ConfigRejected ==
    pc \in {"apply", "done", "error"} =>
        /\ cfg.chunk_size > 0
        /\ cfg.num_overlapping_elements >= 0

---------------------------------------------------------------------------
(* C12: apply, under a valid configuration, never returns chunks for a     *)
(* tree in which a data row of a table holds a cell that is not a string,  *)
(* whatever the header's length: row formatting raises.                    *)

HasNonStringCell(n) ==
    \E r \in 1..Len(ElementsOf(n)) :
        \E i \in 1..Len(ElementsOf(n)[r]) : ~IsString(ElementsOf(n)[r][i])

C12_MalformedRowRaises ==
    (pc = "done" /\ cfg.chunk_size > 0 /\ cfg.num_overlapping_elements >= 0) =>
        \A n \in ChunkedContainers :
            nodes[n].type = "table" => ~HasNonStringCell(n)

---------------------------------------------------------------------------
(* C13: an element or node of an unrecognized type raises no error and is  *)
(* skipped: the build step for it leaves the parent stack and the tree as  *)
(* they are, the apply step for it emits no chunk, and the tree built and  *)
(* the chunks returned are those of the input without it.                  *)

\* the input without its elements of an unrecognized type
Recognized(elements) == SelectSeq(elements, LAMBDA e : e.type \in RecognizedTypes)

IsForeign(ns, id) ==
    Get(ns[id], "type", "none") \notin RecognizedTypes \cup {"list_container"}

\* the tree without its nodes of an unrecognized type
WithoutForeignIds(ns, ids) == SelectSeq(ids, LAMBDA id : ~IsForeign(ns, id))

WithoutForeign(ns) ==
    [id \in 1..Len(ns) |->
        [ns[id] EXCEPT !.children = WithoutForeignIds(ns, @)]]

C13_AsIfAbsent ==
    /\ flat_elements /= <<>> =>
          Builder = reconstruct_hierarchy(Recognized(flat_elements))
    /\ pc = "done" =>
          chunks = apply_result(cfg, WithoutForeign(nodes),
                                WithoutForeignIds(nodes, root_nodes)).chunks
    /\ pc = "error" =>
          apply_result(cfg, WithoutForeign(nodes),
                       WithoutForeignIds(nodes, root_nodes)).raised

C13_SkipStep ==
    /\ (pc = "build" /\ Len(flat_elements') > Len(flat_elements)
            /\ Last(flat_elements').type \notin RecognizedTypes) =>
          UNCHANGED <<nodes, root_nodes, parent_stack>>
    /\ (pc = "apply" /\ work /= <<>> /\ Top.kind = "nodes" /\ Top.nodes /= <<>>
            /\ IsForeign(nodes, Head(Top.nodes))) =>
          /\ chunks' = chunks
          /\ pc' = "apply"
          /\ work' = Front(work) \o <<Advanced>>

---------------------------------------------------------------------------
(* C14: for a table with a header and no data row apply returns exactly    *)
(* one chunk, of node_type table_header_only, whose content is the line    *)
(* "Table Header: " with the header's cells in order; no other chunk holds *)
(* the header, and the table is never dropped.                             *)

HeaderOnlyTables ==
    {n \in ChunkedContainers :
        /\ nodes[n].type = "table"
        /\ Get(nodes[n], "header", <<>>) /= <<>>
        /\ Get(nodes[n], "data_rows", <<>>) = <<>>}

\* "Table Header: " + " | ".join(table_header)
HeaderLine(n) == <<[kind |-> "table_header", cells |-> nodes[n].header]>>

C14_HeaderOnlyChunk ==
    pc = "done" =>
        \A n \in HeaderOnlyTables :
            \E j \in 1..Len(chunks) :
                /\ chunks[j].metadata.node_type = "table_header_only"
                /\ ContentOf(chunks[j]) = HeaderLine(n)
                /\ \A k \in 1..Len(chunks) :
                      (k /= j) =>
                          Range(IdsOf(chunks[k].text))
                              \cap Range(IdsOf(HeaderLine(n))) = {}

\* apply has returned for the table with the header [Name, Age]
C14_Witness ==
    /\ pc = "done"
    /\ \E n \in HeaderOnlyTables : Len(nodes[n].header) = 2
    /\ Len(chunks) = 1

---------------------------------------------------------------------------
(* C15: for every paragraph node whose text is not blank apply returns     *)
(* exactly one chunk, of node_type paragraph, whose text is the heading    *)
(* prefix followed by the paragraph's text and nothing else; no other      *)
(* chunk holds the paragraph, and a blank paragraph gives no chunk,        *)
(* whatever chunk_size is.                                                 *)

\* the paragraphs _consolidate_recursive reaches
ChunkedParagraphs ==
    {n \in 1..Len(nodes) :
        /\ nodes[n].type = "paragraph"
        /\ \A a \in ParentOf(n) : nodes[a].type = "heading"}

ParagraphLine(n) == <<TextLine(0, "", nodes[n].content)>>

ParagraphChunks == {j \in 1..Len(chunks) : chunks[j].metadata.node_type = "paragraph"}

C15_OneChunkPerParagraph ==
    pc = "done" =>
        /\ \A n \in ChunkedParagraphs :
              ~IsBlank(nodes[n].content) =>
                  \E j \in ParagraphChunks :
                      /\ chunks[j].text =
                             create_chunk_text(chunks[j].metadata.headings,
                                               ParagraphLine(n))
                      /\ ContentOf(chunks[j]) = ParagraphLine(n)
                      /\ \A k \in 1..Len(chunks) :
                            (k /= j) =>
                                nodes[n].content.id \notin Range(IdsOf(chunks[k].text))
        /\ Cardinality(ParagraphChunks)
               = Cardinality({n \in ChunkedParagraphs : ~IsBlank(nodes[n].content)})

\* a blank paragraph next to one whose chunk is larger than chunk_size
C15_Witness ==
    /\ pc = "done"
    /\ \E n \in ChunkedParagraphs : IsBlank(nodes[n].content)
    /\ \E j \in ParagraphChunks : chunks[j].metadata.num_tokens > cfg.chunk_size

---------------------------------------------------------------------------
(* C16: with num_overlapping_elements > 0, among the chunks of one apply   *)
(* call the first of node_type list_container (and the first of node_type  *)
(* table_rows) has has_overlap = False and overlap_elements = 0, and every *)
(* later chunk of that node_type has both keys, has_overlap = True and     *)
(* overlap_elements > 0.                                                   *)

\* chunk j is the first of its node_type in the output
FirstOfType(j) ==
    \A k \in 1..(j - 1) : chunks[k].metadata.node_type /= chunks[j].metadata.node_type

---------------------------------------------------------------------------
(* C17, the scenario: one list container of 5 items of equal token size,   *)
(* a chunk_size that two items fit and three do not, and                   *)
(* num_overlapping_elements = 1.                                           *)

\* tokens of the first m items of list container n, joined
ItemsTokens(n, m) ==
    count_tokens_in_text(Flatten([k \in 1..m |-> ElementText(n, k)]))

FiveItemList ==
    /\ Len(root_nodes) = 1
    /\ nodes[root_nodes[1]].type = "list_container"
    /\ Len(ElementsOf(root_nodes[1])) = 5
    /\ \A k \in 1..5 :
          ItemsTokens(root_nodes[1], 1)
              = count_tokens_in_text(ElementText(root_nodes[1], k))
    /\ cfg.num_overlapping_elements = 1
    /\ ItemsTokens(root_nodes[1], 2) <= cfg.chunk_size
    /\ ItemsTokens(root_nodes[1], 3) > cfg.chunk_size

\* chunk j begins with the last item of chunk j - 1
BeginsWithLastOfPrevious(j) ==
    BatchId(chunks[j], 1) = BatchId(chunks[j - 1], BatchLen(chunks[j - 1]))

(* C17 as claimed: apply returns exactly 3 chunks, chunks 2 and 3 begin    *)
(* with the last item of the chunk before, chunk 1 has has_overlap False.  *)

C17_ThreeChunks ==
    (pc = "done" /\ FiveItemList) =>
        /\ Len(chunks) = 3
        /\ \A j \in 2..3 : BeginsWithLastOfPrevious(j)
        /\ HasOverlap(chunks[1]) = FALSE

(* C17 as amended: apply returns exactly 4 chunks of two items each,       *)
(* chunks 2, 3 and 4 begin with the last item of the chunk before, chunk 1 *)
(* has has_overlap False.                                                  *)

C17_FourChunks ==
    (pc = "done" /\ FiveItemList) =>
        /\ Len(chunks) = 4
        /\ \A j \in 1..4 : BatchLen(chunks[j]) = 2
        /\ \A j \in 2..4 : BeginsWithLastOfPrevious(j)
        /\ HasOverlap(chunks[1]) = FALSE

C17_Witness ==
    /\ pc = "done"
    /\ FiveItemList
    /\ Len(chunks) = 4
    /\ HasOverlap(chunks[4])

---------------------------------------------------------------------------
(* C18: for the input [Heading(1, "Intro"), Paragraph("Hello world")]      *)
(* build and apply return two chunks: a heading chunk whose text is        *)
(* "Intro", then a paragraph chunk whose text is                           *)
(* "H1: Intro\n---\nHello world".                                          *)

IntroDocument == <<Heading(1, Text(1, 1)), Paragraph(Text(2, 1))>>

C18_IntroScenario ==
    (pc = "done" /\ flat_elements = IntroDocument) =>
        /\ Len(chunks) = 2
        /\ chunks[1].metadata.node_type = "heading"
        /\ chunks[1].text = <<TextLine(0, "", Text(1, 1))>>
        /\ chunks[2].metadata.node_type = "paragraph"
        /\ chunks[2].text = <<[kind |-> "heading", level |-> 1, text |-> Text(1, 1)],
                              [kind |-> "rule"],
                              TextLine(0, "", Text(2, 1))>>

---------------------------------------------------------------------------
(* C20: a heading of level L is the child of the most recent preceding     *)
(* heading of a level < L, and a root when there is none; every ancestor   *)
(* of a heading is a heading of a smaller level, so levels strictly        *)
(* increase along every path and no heading is below a list container or   *)
(* a list item.                                                            *)

\* ranks of the headings before the k-th element whose level is below its level
ShallowerBefore(k) ==
    {m \in HeadingRanks :
        m < k /\ nodes[ElemNodes[m]].level < nodes[ElemNodes[k]].level}

MaxOf(S) == CHOOSE m \in S : \A m2 \in S : m2 <= m

C20_HeadingParent ==
    \A k \in HeadingRanks :
        LET h == ElemNodes[k]
            sh == ShallowerBefore(k)
        IN /\ IF sh = {}
              THEN ParentOf(h) = {} /\ h \in Range(root_nodes)
              ELSE ParentOf(h) = {ElemNodes[MaxOf(sh)]} /\ h \notin Range(root_nodes)
           /\ \A a \in Ancestors(h) :
                 /\ nodes[a].type = "heading"
                 /\ nodes[a].level < nodes[h].level

\* a heading attached below a heading that is not the one just before it: a
\* heading of its own level was closed in between
C20_Witness ==
    /\ pc = "built"
    /\ \E k \in HeadingRanks :
          /\ ShallowerBefore(k) /= {}
          /\ \E m \in HeadingRanks : MaxOf(ShallowerBefore(k)) < m /\ m < k

---------------------------------------------------------------------------
(* C19: of two calls on the same instances whose steps interleave, each    *)
(* builds the tree and returns the chunks it builds and returns when it    *)
(* runs alone; a step of one call leaves the locals of the other as they   *)
(* are, and no call writes the instance.                                   *)

\* the call with locals L is where a call running alone on its input is
CallCorrect(L) ==
    /\ [nodes |-> L.nodes, root_nodes |-> L.root_nodes,
        parent_stack |-> L.parent_stack] = reconstruct_hierarchy(L.flat_elements)
    /\ L.pc = "done" =>
          [chunks |-> L.chunks, raised |-> FALSE]
              = apply_result(cfg, L.nodes, L.root_nodes)
    /\ L.pc /= "error"

C19_Isolated ==
    /\ cfg' = cfg
    /\ \/ other' = other
       \/ other' = Locals /\ Locals' = other

C19_CallsIndependent ==
    [](CallCorrect(Locals) /\ CallCorrect(other)) /\ [][C19_Isolated]_vars

\* one call has returned its chunks while the other, on another document,
\* is inside apply and has emitted a chunk
C19_Witness ==
    /\ pc = "done"
    /\ Len(chunks) >= 2
    /\ other.pc = "apply"
    /\ other.chunks /= <<>>
    /\ other.flat_elements /= flat_elements
    /\ cfg.num_overlapping_elements > 0

---------------------------------------------------------------------------
(* C21: a list item of level I and num_id G is appended to a list          *)
(* container c of (I, G) that exists already if and only if every          *)
(* recognized element that arrived after c's most recent item is a list    *)
(* item of num_id G and of a level > I (or none arrived); when there is no *)
(* such container a new list_container of (I, G) is made with the item as  *)
(* its first child.                                                        *)

ListItemRanks == {k \in 1..Len(ElemNodes) : nodes[ElemNodes[k]].type = "list_item"}

ListContainers == {c \in 1..Len(nodes) : nodes[c].type = "list_container"}

\* the k-th element is a child of container c, and not the one c was made for
JoinsExisting(k, c) ==
    /\ ElemNodes[k] \in Range(nodes[c].children)
    /\ nodes[c].children[1] /= ElemNodes[k]

\* container c existed before the k-th element arrived, has its level and
\* num_id, and only deeper items of the same list arrived since c's last item
OpenFor(c, k) ==
    LET e == ElemAt(k)
        before == {RankOf(x) : x \in {y \in Range(nodes[c].children) : y < ElemNodes[k]}}
    IN /\ c < ElemNodes[k]
       /\ nodes[c].level = e.level
       /\ nodes[c].num_id = e.num_id
       /\ \A j \in (MaxOf(before) + 1)..(k - 1) :
             /\ ElemAt(j).type = "list_item"
             /\ ElemAt(j).num_id = e.num_id
             /\ ElemAt(j).level > e.level

C21_ListItemJoins ==
    /\ Len(ElemNodes) = Len(RecognizedPos)
    /\ \A k \in ListItemRanks :
          /\ \A c \in ListContainers : JoinsExisting(k, c) <=> OpenFor(c, k)
          /\ (\A c \in ListContainers : ~OpenFor(c, k)) =>
                LET c == ElemNodes[k] + 1 IN
                /\ c \in ListContainers
                /\ nodes[c].children[1] = ElemNodes[k]
                /\ nodes[c].level = ElemAt(k).level
                /\ nodes[c].num_id = ElemAt(k).num_id
                /\ ParentOf(ElemNodes[k]) = {c}

\* an item of num_id -1 that rejoins its container after a nested item of
\* the same list, in a tree that is complete
C21_Witness ==
    /\ pc = "built"
    /\ \E k \in ListItemRanks : \E c \in ListContainers :
          /\ JoinsExisting(k, c)
          /\ ElemAt(k).num_id = -1
          /\ ElemAt(k - 1).type = "list_item"
          /\ ElemAt(k - 1).level > ElemAt(k).level

---------------------------------------------------------------------------
(* C22: in every tree _reconstruct_hierarchy has built, the parent of a    *)
(* list_item is a list_container (an item is no root and no child of a     *)
(* heading), and a list_container is a root, a child of a heading, or a    *)
(* child of a list_item of the same num_id and of a smaller level.         *)

C22_ListParents ==
    /\ \A k \in ListItemRanks :
          LET i == ElemNodes[k] IN
          /\ i \notin Range(root_nodes)
          /\ \E c \in ListContainers : ParentOf(i) = {c}
    /\ \A c \in ListContainers :
          \/ c \in Range(root_nodes) /\ ParentOf(c) = {}
          \/ /\ c \notin Range(root_nodes)
             /\ \E p \in 1..Len(nodes) :
                   /\ ParentOf(c) = {p}
                   /\ \/ nodes[p].type = "heading"
                      \/ /\ nodes[p].type = "list_item"
                         /\ nodes[p].num_id = nodes[c].num_id
                         /\ nodes[p].level < nodes[c].level

\* a complete tree with a container below a heading and one below a list item
C22_Witness ==
    /\ pc = "built"
    /\ \E c \in ListContainers : \E p \in ParentOf(c) : nodes[p].type = "heading"
    /\ \E c \in ListContainers : \E p \in ParentOf(c) : nodes[p].type = "list_item"

---------------------------------------------------------------------------
(* C23: in list and table splitting a chunk ends immediately before        *)
(* element e if and only if the batch is not empty and headingTokens +     *)
(* currentContentTokens + tokens(e) + tokens(newline) > chunk_size.  Read  *)
(* from the chunks: every chunk that is followed by a chunk of the same    *)
(* container would exceed chunk_size with the container's next element,    *)
(* and every element that joined a batch after another element of the same *)
(* iteration run (it is not the first element of the container and not the *)
(* one that caused the flush) fitted when it joined.                       *)

\* tokens of the batch's first m elements with its (m + 1)-th element added
TokensWithNext(c, m, next_lines) ==
    HeadingTokensOf(c) + ContentTokensOf(c, m)
        + count_tokens_in_text(next_lines) + NlTokens

C23_FlushOnlyWhenFull ==
    /\ \A j \in 1..Len(chunks) :
          SameContainerNext(j) =>
              TokensWithNext(chunks[j], BatchLen(chunks[j]),
                             ElementLines(chunks[j + 1], SeedLen(j + 1) + 1))
                  > cfg.chunk_size
    /\ \A j \in 1..Len(chunks) :
          IsContainerChunk(chunks[j]) =>
              \A m \in (SeedLen(j) + 2)..BatchLen(chunks[j]) :
                  TokensWithNext(chunks[j], m - 1, ElementLines(chunks[j], m))
                      <= cfg.chunk_size
    /\ \A n \in ChunkedContainers :
          Len(ChunksOf(n)) >= 1 => IndexInContainer(chunks[ChunksOf(n)[1]], 1) = 1

\* a container split in three or more chunks with overlap, one of them, not
\* the last, with two elements that are not repeats
C23_Witness ==
    /\ pc = "done"
    /\ cfg.num_overlapping_elements > 0
    /\ \E n \in ChunkedContainers :
          /\ Len(ChunksOf(n)) >= 3
          /\ \E i \in 1..(Len(ChunksOf(n)) - 1) :
                BatchLen(chunks[ChunksOf(n)[i]]) - SeedLen(ChunksOf(n)[i]) >= 2

---------------------------------------------------------------------------
(* C24: after every iteration of _reconstruct_hierarchy the parent stack   *)
(* holds at most (number of distinct heading levels in the input so far)   *)
(* + 2 x (number of distinct list item levels in the input so far) nodes,  *)
(* whatever the number of elements.                                        *)

\* the distinct levels of the input elements of a type
LevelsOf(type) ==
    {flat_elements[p].level :
        p \in {q \in 1..Len(flat_elements) : flat_elements[q].type = type}}

C24_StackDepth ==
    Len(parent_stack)
        <= Cardinality(LevelsOf("heading")) + 2 * Cardinality(LevelsOf("list_item"))

\* the bound is met by a stack shorter than the input: list contexts were
\* closed and a list is open again
C24_Witness ==
    /\ Len(flat_elements) = MaxLen
    /\ Len(parent_stack) < Len(flat_elements)
    /\ Cardinality(ListContainers) >= 2
    /\ Len(parent_stack)
          = Cardinality(LevelsOf("heading")) + 2 * Cardinality(LevelsOf("list_item"))

---------------------------------------------------------------------------
(* C25: _reconstruct_hierarchy attaches every input element of type        *)
(* heading, paragraph, list_item or table exactly once, as a root or as    *)
(* the child of one node, and the depth-first pre-order traversal of the   *)
(* roots, the list containers left out, gives the elements in their input  *)
(* order.                                                                  *)

\* the nodes of the subtrees of ids, depth first, parents before children
RECURSIVE PreOrder(_)
PreOrder(ids) ==
    IF ids = <<>> THEN <<>>
    ELSE <<Head(ids)>> \o PreOrder(nodes[Head(ids)].children) \o PreOrder(Tail(ids))

\* how many times node id is attached: as a root and as a child
TimesAttached(id) ==
    Cardinality({i \in 1..Len(root_nodes) : root_nodes[i] = id})
      + SumSeq([a \in 1..Len(nodes) |->
                   Cardinality({i \in 1..Len(nodes[a].children) :
                                   nodes[a].children[i] = id})])

\* the node without its children: the element's dictionary
ElementOf(id) == [f \in DOMAIN nodes[id] \ {"children"} |-> nodes[id][f]]

C25_PreOrderIsInput ==
    LET visited == SelectSeq(PreOrder(root_nodes),
                             LAMBDA id : nodes[id].type /= "list_container")
    IN /\ Len(visited) = Len(RecognizedPos)
       /\ \A k \in 1..Len(visited) :
             /\ ElementOf(visited[k]) = ElemAt(k)
             /\ TimesAttached(visited[k]) = 1
             /\ \A k2 \in 1..Len(visited) : visited[k2] = visited[k] => k2 = k

\* a complete tree of MaxLen elements with a node two levels below a root
C25_Witness ==
    /\ pc = "built"
    /\ Len(RecognizedPos) = MaxLen
    /\ \E r \in Range(root_nodes) : \E c \in Range(nodes[r].children) :
          nodes[c].children /= <<>>

---------------------------------------------------------------------------
(* C30: in every iteration of _reconstruct_hierarchy a node that existed   *)
(* before gets a child only when it is on the parent stack and is its top  *)
(* once the iteration has popped: it gets one child, a node of this        *)
(* iteration, appended last, and what the stack holds above it afterwards  *)
(* are nodes of this iteration.  The root list gets a node only when the   *)
(* iteration has popped the whole stack.  A node that is not on the stack  *)
(* is never pushed again and never gets another child: the nodes of        *)
(* earlier iterations that stay on the stack are a prefix of the stack.    *)

\* the node ids made by the step
NewIds == (Len(nodes) + 1)..Len(nodes')

\* the part of the new stack that was there before the step
KeptStack == SelectSeq(parent_stack', LAMBDA id : id <= Len(nodes))

C30_ScopeStep ==
    /\ Len(nodes') >= Len(nodes)
    /\ IsPrefix(KeptStack, parent_stack)
    /\ parent_stack' = KeptStack \o SubSeq(parent_stack', Len(KeptStack) + 1,
                                           Len(parent_stack'))
    /\ \A n \in 1..Len(nodes) :
          nodes'[n].children /= nodes[n].children =>
              /\ n \in Range(parent_stack)
              /\ KeptStack /= <<>> /\ Last(KeptStack) = n
              /\ \E x \in NewIds : nodes'[n].children = Append(nodes[n].children, x)
    /\ root_nodes' /= root_nodes =>
          /\ KeptStack = <<>>
          /\ \E x \in NewIds : root_nodes' = Append(root_nodes, x)
    /\ \A n \in 1..Len(nodes) :
          n \notin Range(parent_stack) =>
              /\ n \notin Range(parent_stack')
              /\ nodes'[n] = nodes[n]

C30_ScopesNeverReopen == [][C30_ScopeStep]_vars

\* a list item has joined its container again after a nested list below
\* the container's first item was closed, and the tree is complete
C30_Witness ==
    /\ pc = "built"
    /\ \E c \in ListContainers :
          /\ Len(nodes[c].children) >= 2
          /\ \E d \in Descendants(c) : d \in ListContainers
          /\ c \in Range(parent_stack)
          /\ \E d \in Descendants(c) : d \notin Range(parent_stack)

---------------------------------------------------------------------------
(* C26: for every list_container or table_rows chunk, has_overlap is True  *)
(* exactly when the chunk's batch begins with elements repeated from the   *)
(* previous chunk of the same container, and overlap_elements is the       *)
(* number of those repeated leading elements: 0 for the first chunk of a   *)
(* container and 0 when the previous batch was too small to seed any.      *)

C26_OverlapMetadata ==
    \A j \in 1..Len(chunks) :
        IsContainerChunk(chunks[j]) =>
            /\ HasOverlap(chunks[j]) = (SeedLen(j) > 0)
            /\ OverlapElements(chunks[j]) = SeedLen(j)

---------------------------------------------------------------------------
(* C27: with num_overlapping_elements = 0 the chunks of one list container *)
(* or one table with data rows partition its elements: the batches are not *)
(* empty and their concatenation, in output order, is the container's      *)
(* element sequence, every element once.                                   *)

\* the batches of the chunks of container n, one after the other
BatchesOf(n) ==
    Flatten([i \in 1..Len(ChunksOf(n)) |-> BatchIds(chunks[ChunksOf(n)[i]])])

C27_Partition ==
    (pc = "done" /\ cfg.num_overlapping_elements = 0) =>
        \A n \in ChunkedContainers :
            /\ BatchesOf(n) = ElementIds(n)
            /\ \A i \in 1..Len(ChunksOf(n)) : BatchLen(chunks[ChunksOf(n)[i]]) >= 1
            /\ \A k \in 1..Len(ElementIds(n)) :
                  Cardinality({j \in 1..Len(chunks) :
                      ElementIds(n)[k] \in Range(IdsOf(ContentOf(chunks[j])))}) = 1

\* without overlap, a container of MaxItems elements in three chunks, one of
\* them of two elements
C27_Witness ==
    /\ pc = "done"
    /\ cfg.num_overlapping_elements = 0
    /\ \E n \in ChunkedContainers :
          /\ Len(ElementsOf(n)) = MaxItems
          /\ Len(ChunksOf(n)) = 3
          /\ \E i \in 1..3 : BatchLen(chunks[ChunksOf(n)[i]]) = 2

---------------------------------------------------------------------------
(* C28: with num_overlapping_elements = 0, when no element of a container  *)
(* has headingTokens + tokens(element) > chunk_size, every chunk of the    *)
(* container has headingTokens + contentTokens <= chunk_size.              *)

\* every element of container n fits in a chunk of its own, under the
\* heading prefix the container's chunks get
AllFitAlone(n) ==
    \A j \in Range(ChunksOf(n)) :
        \A k \in 1..Len(ElementsOf(n)) :
            HeadingTokensOf(chunks[j]) + count_tokens_in_text(ElementText(n, k))
                <= cfg.chunk_size

C28_HardBudget ==
    (pc = "done" /\ cfg.num_overlapping_elements = 0) =>
        \A n \in ChunkedContainers :
            AllFitAlone(n) =>
                \A j \in Range(ChunksOf(n)) :
                    /\ HeadingTokensOf(chunks[j])
                         + ContentTokensOf(chunks[j], BatchLen(chunks[j]))
                           <= cfg.chunk_size
                    /\ chunks[j].metadata.num_tokens <= cfg.chunk_size

\* without overlap, a container under a heading whose elements all fit alone
\* and do not fit together
C28_Witness ==
    /\ pc = "done"
    /\ cfg.num_overlapping_elements = 0
    /\ \E n \in ChunkedContainers :
          /\ AllFitAlone(n)
          /\ Len(ChunksOf(n)) >= 2
          /\ \A j \in Range(ChunksOf(n)) : HeadingTokensOf(chunks[j]) > 0

---------------------------------------------------------------------------
(* C29: the chunks apply returns for the tree _reconstruct_hierarchy built *)
(* are in document order: of two input paragraphs, list items or tables a  *)
(* before b whose text is in some chunk, the first chunk that holds a's    *)
(* text is at the same or an earlier position than the first chunk that    *)
(* holds b's text.                                                         *)

\* the chunks that hold text of the element at input position p
ChunksWith(p) ==
    {j \in 1..Len(chunks) :
        \E x \in Range(IdsOf(ContentOf(chunks[j]))) : PosOfId(x) = p}

MinOf(S) == CHOOSE m \in S : \A m2 \in S : m <= m2

\* the input positions of the paragraphs, list items and tables with a chunk
ChunkedPos ==
    {p \in 1..Len(flat_elements) :
        /\ flat_elements[p].type \in {"paragraph", "list_item", "table"}
        /\ ChunksWith(p) /= {}}

C29_DocumentOrder ==
    \A a, b \in ChunkedPos :
        a < b => MinOf(ChunksWith(a)) <= MinOf(ChunksWith(b))

\* apply has returned the chunks of a document with a heading and two
\* elements of different types, the chunk of the first before that of the
\* second
C29_Witness ==
    /\ pc = "done"
    /\ Cardinality(ChunkedPos) >= 2
    /\ \E a, b \in ChunkedPos :
          /\ a < b
          /\ flat_elements[a].type /= flat_elements[b].type
          /\ MinOf(ChunksWith(a)) < MinOf(ChunksWith(b))
          /\ \E h \in 1..Len(flat_elements) : flat_elements[h].type = "heading"

=============================================================================
